---- MODULE Spec2Model ----
(***************************************************************************)
(* A model of the G&A rules engine: engine/rule_engine.py (RuleEngine) and *)
(* engine/message_resolver.py (MessageResolver).                           *)
(*                                                                         *)
(* Representation of Python/JSON data:                                     *)
(*   - a scalar or container value is a tagged record (PyNone, PyBool,     *)
(*     PyInt, PyStr, PyList, PyDict);                                      *)
(*   - a string that the code normalises is a sequence of one-character    *)
(*     strings, so that lower() and strip() are computed;                  *)
(*   - a string used as a key of a context / data-source mapping (a field  *)
(*     name, a source name, a placeholder token) is the sequence of its    *)
(*     dot-separated segments: "Policy.PolicyState" is                     *)
(*     <<"Policy", "PolicyState">>, "" is <<"">>;                          *)
(*   - a JSON object of the rule configuration (a rule, a sub-rule, a      *)
(*     condition block, the configuration root) is a record whose DOMAIN   *)
(*     is the set of keys present; a JSON value that is not an object in   *)
(*     such a position is a tagged record (it has the key "t");            *)
(*   - an optional value (None or a value) is a sequence of length <= 1.   *)
(***************************************************************************)
EXTENDS Integers, Sequences, FiniteSets, TLC

\* ------------------------------------------------------------------------
\* Python values
\* ------------------------------------------------------------------------

PyNone == [t |-> "none"]

PyBool(b) == [t |-> "bool", b |-> b]

PyInt(n) == [t |-> "int", n |-> n]

PyStr(s) == [t |-> "str", s |-> s]

PyList(xs) == [t |-> "list", items |-> xs]

PyDict(f) == [t |-> "dict", d |-> f]

EmptyMap == [k \in {} |-> PyNone]

None == <<>>

Some(x) == <<x>>

\* The number a bool or an int stands for in a comparison (True == 1).
Num(v) == IF v.t = "bool" THEN (IF v.b THEN 1 ELSE 0) ELSE v.n

\* Python's == on the modelled values.
RECURSIVE PyEq(_, _)
PyEq(a, b) ==
    CASE a.t = "none" -> b.t = "none"
      [] a.t \in {"bool", "int"} -> b.t \in {"bool", "int"} /\ Num(a) = Num(b)
      [] a.t = "str" -> b.t = "str" /\ a.s = b.s
      [] a.t = "list" ->
            /\ b.t = "list"
            /\ Len(a.items) = Len(b.items)
            /\ \A i \in 1..Len(a.items) : PyEq(a.items[i], b.items[i])
      [] a.t = "dict" ->
            /\ b.t = "dict"
            /\ DOMAIN a.d = DOMAIN b.d
            /\ \A k \in DOMAIN a.d : PyEq(a.d[k], b.d[k])

\* Python's "x in (a, b, ...)" / "x in [a, b, ...]".
PyIn(x, xs) == \E i \in 1..Len(xs) : PyEq(x, xs[i])

\* Python's bool(v).
Truthy(v) ==
    CASE v.t = "none" -> FALSE
      [] v.t = "bool" -> v.b
      [] v.t = "int" -> v.n # 0
      [] v.t = "str" -> Len(v.s) > 0
      [] v.t = "list" -> Len(v.items) > 0
      [] v.t = "dict" -> DOMAIN v.d # {}

\* dict.get(key, default) on a PyDict.
DictGet(dv, key, default) == IF key \in DOMAIN dv.d THEN dv.d[key] ELSE default

\* record.get(key, default) on a JSON object of the configuration.
Get(r, key, default) == IF key \in DOMAIN r THEN r[key] ELSE default

IsObject(j) == "t" \notin DOMAIN j

\* ------------------------------------------------------------------------
\* Strings: str.lower() and str.strip()
\* ------------------------------------------------------------------------

UpperCase == << "A", "B", "C", "D", "E", "F", "G", "H", "I", "J", "K", "L", "M",
                "N", "O", "P", "Q", "R", "S", "T", "U", "V", "W", "X", "Y", "Z" >>

LowerCase == << "a", "b", "c", "d", "e", "f", "g", "h", "i", "j", "k", "l", "m",
                "n", "o", "p", "q", "r", "s", "t", "u", "v", "w", "x", "y", "z" >>

Whitespace == {" ", "\t", "\n", "\r"}

LowerChar(c) ==
    IF \E i \in 1..Len(UpperCase) : UpperCase[i] = c
    THEN LowerCase[CHOOSE i \in 1..Len(UpperCase) : UpperCase[i] = c]
    ELSE c

Lower(s) == [i \in 1..Len(s) |-> LowerChar(s[i])]

RECURSIVE LStrip(_)
LStrip(s) == IF s # <<>> /\ Head(s) \in Whitespace THEN LStrip(Tail(s)) ELSE s

RECURSIVE RStrip(_)
RStrip(s) ==
    IF s # <<>> /\ s[Len(s)] \in Whitespace THEN RStrip(SubSeq(s, 1, Len(s) - 1)) ELSE s

Strip(s) == RStrip(LStrip(s))

\* ------------------------------------------------------------------------
\* RuleEngine._normalize / _compare / _get_field
\* ------------------------------------------------------------------------

\* A slip: "true" / "false" are tested on the lowered string before it is stripped.
Normalize_TestBeforeStrip(val) ==
    IF val.t = "none" THEN PyNone
    ELSE IF val.t = "bool" THEN val
    ELSE IF val.t = "str" THEN
        LET low == Lower(val.s) IN
        IF low = <<"t", "r", "u", "e">> THEN PyBool(TRUE)
        ELSE IF low = <<"f", "a", "l", "s", "e">> THEN PyBool(FALSE)
        ELSE PyStr(Strip(low))
    ELSE val

Normalize(val) ==
    IF val.t = "none" THEN PyNone
    ELSE IF val.t = "bool" THEN val
    ELSE IF val.t = "str" THEN
        LET low == Strip(Lower(val.s)) IN
        IF low = <<"t", "r", "u", "e">> THEN PyBool(TRUE)
        ELSE IF low = <<"f", "a", "l", "s", "e">> THEN PyBool(FALSE)
        ELSE PyStr(low)
    ELSE val

NormalizeAll(xs) == [i \in 1..Len(xs) |-> Normalize(xs[i])]

EmptyValues == << PyNone, PyStr(<<>>), PyList(<<>>), PyBool(FALSE), PyInt(0) >>

EmptyOrFalseValues ==
    EmptyValues \o << PyStr(<<"f", "a", "l", "s", "e">>), PyStr(<<"F", "a", "l", "s", "e">>) >>

\* A slip: an operator that is not known is taken as the default "eq".
Compare_UnknownIsEq(actual, expected, op) ==
    IF op \in {"neq", "not_equals"} THEN ~PyEq(Normalize(actual), Normalize(expected))
    ELSE IF op = "in" THEN
        IF expected.t = "list"
        THEN PyIn(Normalize(actual), NormalizeAll(expected.items))
        ELSE PyEq(Normalize(actual), Normalize(expected))
    ELSE IF op = "not_in" THEN
        IF expected.t = "list"
        THEN ~PyIn(Normalize(actual), NormalizeAll(expected.items))
        ELSE ~PyEq(Normalize(actual), Normalize(expected))
    ELSE IF op = "is_empty" THEN PyIn(actual, EmptyValues)
    ELSE IF op = "is_not_empty" THEN ~PyIn(actual, EmptyValues)
    ELSE IF op = "exists_with_value" THEN
        /\ actual.t # "none"
        /\ ~PyEq(actual, PyStr(<<>>))
        /\ ~PyEq(actual, PyList(<<>>))
    ELSE IF op = "is_empty_or_false" THEN PyIn(actual, EmptyOrFalseValues)
    ELSE PyEq(Normalize(actual), Normalize(expected))

\* A slip: exists_with_value is written as the negation of is_empty.
Compare_ExistsIsNotEmpty(actual, expected, op) ==
    IF op \in {"eq", "equals"} THEN PyEq(Normalize(actual), Normalize(expected))
    ELSE IF op \in {"neq", "not_equals"} THEN ~PyEq(Normalize(actual), Normalize(expected))
    ELSE IF op = "in" THEN
        IF expected.t = "list"
        THEN PyIn(Normalize(actual), NormalizeAll(expected.items))
        ELSE PyEq(Normalize(actual), Normalize(expected))
    ELSE IF op = "not_in" THEN
        IF expected.t = "list"
        THEN ~PyIn(Normalize(actual), NormalizeAll(expected.items))
        ELSE ~PyEq(Normalize(actual), Normalize(expected))
    ELSE IF op = "is_empty" THEN PyIn(actual, EmptyValues)
    ELSE IF op = "is_not_empty" THEN ~PyIn(actual, EmptyValues)
    ELSE IF op = "exists_with_value" THEN ~PyIn(actual, EmptyValues)
    ELSE IF op = "is_empty_or_false" THEN PyIn(actual, EmptyOrFalseValues)
    ELSE FALSE

\* A slip: not_in with a scalar val compares with == as "in" does.
Compare_NotInScalarIsEq(actual, expected, op) ==
    IF op \in {"eq", "equals"} THEN PyEq(Normalize(actual), Normalize(expected))
    ELSE IF op \in {"neq", "not_equals"} THEN ~PyEq(Normalize(actual), Normalize(expected))
    ELSE IF op = "in" THEN
        IF expected.t = "list"
        THEN PyIn(Normalize(actual), NormalizeAll(expected.items))
        ELSE PyEq(Normalize(actual), Normalize(expected))
    ELSE IF op = "not_in" THEN
        IF expected.t = "list"
        THEN ~PyIn(Normalize(actual), NormalizeAll(expected.items))
        ELSE PyEq(Normalize(actual), Normalize(expected))
    ELSE IF op = "is_empty" THEN PyIn(actual, EmptyValues)
    ELSE IF op = "is_not_empty" THEN ~PyIn(actual, EmptyValues)
    ELSE IF op = "exists_with_value" THEN
        /\ actual.t # "none"
        /\ ~PyEq(actual, PyStr(<<>>))
        /\ ~PyEq(actual, PyList(<<>>))
    ELSE IF op = "is_empty_or_false" THEN PyIn(actual, EmptyOrFalseValues)
    ELSE FALSE

Compare(actual, expected, op) ==
    IF op \in {"eq", "equals"} THEN PyEq(Normalize(actual), Normalize(expected))
    ELSE IF op \in {"neq", "not_equals"} THEN ~PyEq(Normalize(actual), Normalize(expected))
    ELSE IF op = "in" THEN
        IF expected.t = "list"
        THEN PyIn(Normalize(actual), NormalizeAll(expected.items))
        ELSE PyEq(Normalize(actual), Normalize(expected))
    ELSE IF op = "not_in" THEN
        IF expected.t = "list"
        THEN ~PyIn(Normalize(actual), NormalizeAll(expected.items))
        ELSE ~PyEq(Normalize(actual), Normalize(expected))
    ELSE IF op = "is_empty" THEN PyIn(actual, EmptyValues)
    ELSE IF op = "is_not_empty" THEN ~PyIn(actual, EmptyValues)
    ELSE IF op = "exists_with_value" THEN
        /\ actual.t # "none"
        /\ ~PyEq(actual, PyStr(<<>>))
        /\ ~PyEq(actual, PyList(<<>>))
    ELSE IF op = "is_empty_or_false" THEN PyIn(actual, EmptyOrFalseValues)
    ELSE FALSE

\* The loop of _get_field over the dot-separated parts, from part i on.
RECURSIVE Descend(_, _, _, _)
Descend(context, current, parts, i) ==
    IF i > Len(parts) THEN current
    ELSE IF current.t = "dict" /\ <<parts[i]>> \in DOMAIN current.d
    THEN Descend(context, current.d[<<parts[i]>>], parts, i + 1)
    ELSE DictGet(context, <<parts[Len(parts)]>>, PyNone)

\* A slip: the short name is tried before the nested path.
GetField_ShortFirst(context, field) ==
    IF field \in DOMAIN context.d THEN context.d[field]
    ELSE IF <<field[Len(field)]>> \in DOMAIN context.d THEN context.d[<<field[Len(field)]>>]
    ELSE Descend(context, context, field, 1)

GetField(context, field) ==
    IF field \in DOMAIN context.d THEN context.d[field]
    ELSE Descend(context, context, field, 1)

\* ------------------------------------------------------------------------
\* RuleEngine._evaluate_condition / _evaluate_block
\* An evaluation yields "T" (True), "F" (False) or "X" (an exception is raised).
\* ------------------------------------------------------------------------

B(b) == IF b THEN "T" ELSE "F"

\* The values that make a data-source entry "empty" in a source-only check.
SourceEmptyValues == << PyNone, PyStr(<<>>), PyList(<<>>) >>

\* Stands for the interpreter's recursion limit: a chain of nested
\* _evaluate_block calls longer than this raises RecursionError.
MaxDepth == 6

\* A slip: is_not_empty on a source-only leaf looks at the mapping only, not
\* at its values.
EvaluateCondition_MappingOnly(cond, context, ds) ==
    LET op == Get(cond, "op", "eq") IN
    IF "source" \in DOMAIN cond /\ "field" \notin DOMAIN cond THEN
        LET source_data == DictGet(ds, cond.source, PyDict(EmptyMap)) IN
        IF op = "is_not_empty" THEN
            IF ~Truthy(source_data) THEN "F"
            ELSE IF source_data.t # "dict" THEN "X"
            ELSE "T"
        ELSE IF op = "is_empty" THEN
            IF ~Truthy(source_data) THEN "T"
            ELSE IF source_data.t # "dict" THEN "X"
            ELSE B(\A k \in DOMAIN source_data.d : PyIn(source_data.d[k], SourceEmptyValues))
        ELSE B(Truthy(source_data))
    ELSE IF "source" \in DOMAIN cond /\ "field" \in DOMAIN cond THEN
        LET source_data == DictGet(ds, cond.source, PyDict(EmptyMap)) IN
        IF source_data.t # "dict" THEN "X"
        ELSE B(Compare(DictGet(source_data, cond.field, PyNone), Get(cond, "val", PyNone), op))
    ELSE
        LET field == Get(cond, "field", <<"">>) IN
        B(Compare(GetField(context, field), Get(cond, "val", PyNone), op))

\* A slip: a field the data source lacks is looked up in the context.
EvaluateCondition_ContextFallback(cond, context, ds) ==
    LET op == Get(cond, "op", "eq") IN
    IF "source" \in DOMAIN cond /\ "field" \notin DOMAIN cond THEN
        LET source_data == DictGet(ds, cond.source, PyDict(EmptyMap)) IN
        IF op = "is_not_empty" THEN
            IF ~Truthy(source_data) THEN "F"
            ELSE IF source_data.t # "dict" THEN "X"
            ELSE B(\E k \in DOMAIN source_data.d : ~PyIn(source_data.d[k], SourceEmptyValues))
        ELSE IF op = "is_empty" THEN
            IF ~Truthy(source_data) THEN "T"
            ELSE IF source_data.t # "dict" THEN "X"
            ELSE B(\A k \in DOMAIN source_data.d : PyIn(source_data.d[k], SourceEmptyValues))
        ELSE B(Truthy(source_data))
    ELSE IF "source" \in DOMAIN cond /\ "field" \in DOMAIN cond THEN
        LET source_data == DictGet(ds, cond.source, PyDict(EmptyMap)) IN
        IF source_data.t # "dict" THEN "X"
        ELSE B(Compare(DictGet(source_data, cond.field, GetField(context, cond.field)),
                       Get(cond, "val", PyNone), op))
    ELSE
        LET field == Get(cond, "field", <<"">>) IN
        B(Compare(GetField(context, field), Get(cond, "val", PyNone), op))

EvaluateCondition(cond, context, ds) ==
    LET op == Get(cond, "op", "eq") IN
    IF "source" \in DOMAIN cond /\ "field" \notin DOMAIN cond THEN
        LET source_data == DictGet(ds, cond.source, PyDict(EmptyMap)) IN
        IF op = "is_not_empty" THEN
            IF ~Truthy(source_data) THEN "F"
            ELSE IF source_data.t # "dict" THEN "X"
            ELSE B(\E k \in DOMAIN source_data.d : ~PyIn(source_data.d[k], SourceEmptyValues))
        ELSE IF op = "is_empty" THEN
            IF ~Truthy(source_data) THEN "T"
            ELSE IF source_data.t # "dict" THEN "X"
            ELSE B(\A k \in DOMAIN source_data.d : PyIn(source_data.d[k], SourceEmptyValues))
        ELSE B(Truthy(source_data))
    ELSE IF "source" \in DOMAIN cond /\ "field" \in DOMAIN cond THEN
        LET source_data == DictGet(ds, cond.source, PyDict(EmptyMap)) IN
        IF source_data.t # "dict" THEN "X"
        ELSE B(Compare(DictGet(source_data, cond.field, PyNone), Get(cond, "val", PyNone), op))
    ELSE
        LET field == Get(cond, "field", <<"">>) IN
        B(Compare(GetField(context, field), Get(cond, "val", PyNone), op))

RECURSIVE EvaluateBlock(_, _, _, _, _)
RECURSIVE AllOf(_, _, _, _, _, _)
RECURSIVE AnyOf(_, _, _, _, _, _)

\* all(self._evaluate_block(c, ...) for c in children), from child i on.
AllOf(children, i, context, ds, templates, depth) ==
    IF i > Len(children) THEN "T"
    ELSE LET r == EvaluateBlock(children[i], context, ds, templates, depth) IN
         IF r = "T" THEN AllOf(children, i + 1, context, ds, templates, depth) ELSE r

\* any(self._evaluate_block(c, ...) for c in children), from child i on.
AnyOf(children, i, context, ds, templates, depth) ==
    IF i > Len(children) THEN "F"
    ELSE LET r == EvaluateBlock(children[i], context, ds, templates, depth) IN
         IF r = "F" THEN AnyOf(children, i + 1, context, ds, templates, depth) ELSE r

\* A slip: a reference to a template that is not registered raises (a KeyError
\* from self.templates[name]) instead of evaluating to False.
EvaluateBlock_MissingTemplateRaises(block, context, ds, templates, depth) ==
    IF depth > MaxDepth THEN "X"
    ELSE IF ~IsObject(block) THEN "X"
    ELSE IF "use_template" \in DOMAIN block THEN
        IF block.use_template \notin DOMAIN templates THEN "X"
        ELSE IF templates[block.use_template] = PyNone THEN "F"
        ELSE EvaluateBlock(templates[block.use_template], context, ds, templates, depth + 1)
    ELSE IF "all" \in DOMAIN block THEN AllOf(block.all, 1, context, ds, templates, depth + 1)
    ELSE IF "any" \in DOMAIN block THEN AnyOf(block.any, 1, context, ds, templates, depth + 1)
    ELSE IF "not" \in DOMAIN block THEN
        LET r == EvaluateBlock(block["not"], context, ds, templates, depth + 1) IN
        IF r = "X" THEN "X" ELSE B(r = "F")
    ELSE EvaluateCondition(block, context, ds)

EvaluateBlock(block, context, ds, templates, depth) ==
    IF depth > MaxDepth THEN "X"
    ELSE IF ~IsObject(block) THEN "X"
    ELSE IF "use_template" \in DOMAIN block THEN
        IF block.use_template \notin DOMAIN templates
           \/ templates[block.use_template] = PyNone THEN "F"
        ELSE EvaluateBlock(templates[block.use_template], context, ds, templates, depth + 1)
    ELSE IF "all" \in DOMAIN block THEN AllOf(block.all, 1, context, ds, templates, depth + 1)
    ELSE IF "any" \in DOMAIN block THEN AnyOf(block.any, 1, context, ds, templates, depth + 1)
    ELSE IF "not" \in DOMAIN block THEN
        LET r == EvaluateBlock(block["not"], context, ds, templates, depth + 1) IN
        IF r = "X" THEN "X" ELSE B(r = "F")
    ELSE EvaluateCondition(block, context, ds)

\* ------------------------------------------------------------------------
\* RuleEngine.evaluate
\* ------------------------------------------------------------------------

EmptyBlock == [k \in {} |-> PyNone]

RuleId(rule) == Get(rule, "id", "unknown")

\* The dict returned for a rule-level match (rule_engine.py 106-113).
ParentMatch(rule) ==
    [ rule_id      |-> RuleId(rule),
      name         |-> Get(rule, "name", ""),
      message_ref  |-> Some(Get(rule, "message_ref", "")),
      placeholders |-> Get(rule, "placeholders", <<>>),
      priority     |-> IF "priority" \in DOMAIN rule THEN Some(rule.priority) ELSE None,
      tags         |-> Get(rule, "tags", <<>>) ]

\* A slip: the sub-rule's own message_ref and placeholders are ignored.
SubMatch_NoOverride(rule, sub) ==
    [ rule_id        |-> Get(sub, "id", RuleId(rule)),
      parent_rule_id |-> RuleId(rule),
      name           |-> Get(rule, "name", ""),
      message_ref    |-> IF "message_ref" \in DOMAIN rule THEN Some(rule.message_ref) ELSE None,
      placeholders   |-> Get(rule, "placeholders", <<>>),
      priority       |-> IF "priority" \in DOMAIN rule THEN Some(rule.priority) ELSE None,
      tags           |-> Get(rule, "tags", <<>>) ]

\* The dict returned for a sub-rule match (rule_engine.py 96-104).
SubMatch(rule, sub) ==
    [ rule_id        |-> Get(sub, "id", RuleId(rule)),
      parent_rule_id |-> RuleId(rule),
      name           |-> Get(rule, "name", ""),
      message_ref    |-> IF "message_ref" \in DOMAIN sub THEN Some(sub.message_ref)
                         ELSE IF "message_ref" \in DOMAIN rule THEN Some(rule.message_ref)
                         ELSE None,
      placeholders   |-> Get(sub, "placeholders", Get(rule, "placeholders", <<>>)),
      priority       |-> IF "priority" \in DOMAIN rule THEN Some(rule.priority) ELSE None,
      tags           |-> Get(rule, "tags", <<>>) ]

\* A slip: the sub-rules are scanned from the last one back.
RECURSIVE SubRules_Backwards(_, _, _, _, _, _)
SubRules_Backwards(rule, subs, j, context, ds, templates) ==
    LET k == Len(subs) + 1 - j IN
    IF j > Len(subs) THEN [kind |-> "match", m |-> ParentMatch(rule)]
    ELSE LET r == EvaluateBlock(Get(subs[k], "conditions", EmptyBlock), context, ds, templates, 1) IN
         IF r = "X" THEN [kind |-> "fault"]
         ELSE IF r = "T" THEN [kind |-> "match", m |-> SubMatch(rule, subs[k])]
         ELSE SubRules_Backwards(rule, subs, j + 1, context, ds, templates)

\* The loop over sub_rules of a rule whose own conditions hold, from sub-rule j on.
\* Yields [kind |-> "match", m |-> dict] or [kind |-> "fault"].
RECURSIVE SubRules(_, _, _, _, _, _)
SubRules(rule, subs, j, context, ds, templates) ==
    IF j > Len(subs) THEN [kind |-> "match", m |-> ParentMatch(rule)]
    ELSE LET r == EvaluateBlock(Get(subs[j], "conditions", EmptyBlock), context, ds, templates, 1) IN
         IF r = "X" THEN [kind |-> "fault"]
         ELSE IF r = "T" THEN [kind |-> "match", m |-> SubMatch(rule, subs[j])]
         ELSE SubRules(rule, subs, j + 1, context, ds, templates)

\* A slip: a rule with sub-rules of which none holds falls through to the next rule.
TryRule_FallThrough(rule, context, ds, templates) ==
    LET r == EvaluateBlock(Get(rule, "conditions", EmptyBlock), context, ds, templates, 1)
        o == SubRules(rule, Get(rule, "sub_rules", <<>>), 1, context, ds, templates) IN
    IF r = "X" THEN [kind |-> "fault"]
    ELSE IF r = "F" THEN [kind |-> "nomatch"]
    ELSE IF Get(rule, "sub_rules", <<>>) # <<>> /\ o.kind = "match" /\ o.m = ParentMatch(rule)
    THEN [kind |-> "nomatch"]
    ELSE o

\* A slip: a rule whose conditions raise is returned as a match.
TryRule_FaultMatches(rule, context, ds, templates) ==
    LET r == EvaluateBlock(Get(rule, "conditions", EmptyBlock), context, ds, templates, 1) IN
    IF r = "X" THEN [kind |-> "match", m |-> ParentMatch(rule)]
    ELSE IF r = "F" THEN [kind |-> "nomatch"]
    ELSE SubRules(rule, Get(rule, "sub_rules", <<>>), 1, context, ds, templates)

\* The body of the try block for one rule: "match", "nomatch", or "fault"
\* (the except clause logs it and continues with the next rule).
TryRule(rule, context, ds, templates) ==
    LET r == EvaluateBlock(Get(rule, "conditions", EmptyBlock), context, ds, templates, 1) IN
    IF r = "X" THEN [kind |-> "fault"]
    ELSE IF r = "F" THEN [kind |-> "nomatch"]
    ELSE SubRules(rule, Get(rule, "sub_rules", <<>>), 1, context, ds, templates)

\* A slip: no try/except around a rule, a fault ends the scan without a match.
RECURSIVE EvaluateFrom_AbortOnFault(_, _, _, _, _)
EvaluateFrom_AbortOnFault(rules, i, context, ds, templates) ==
    IF i > Len(rules) THEN None
    ELSE LET o == TryRule(rules[i], context, ds, templates) IN
         IF o.kind = "match" THEN Some(o.m)
         ELSE IF o.kind = "fault" THEN None
         ELSE EvaluateFrom_AbortOnFault(rules, i + 1, context, ds, templates)

\* for rule in rules: ..., from rule i on; None when the loop runs out.
RECURSIVE EvaluateFrom(_, _, _, _, _)
EvaluateFrom(rules, i, context, ds, templates) ==
    IF i > Len(rules) THEN None
    ELSE LET o == TryRule(rules[i], context, ds, templates) IN
         IF o.kind = "match" THEN Some(o.m)
         ELSE EvaluateFrom(rules, i + 1, context, ds, templates)

\* A slip: the scan starts at the second rule.
EvaluateRules_SkipFirst(rules, context, ds, templates) ==
    EvaluateFrom(rules, 2, context, ds, templates)

EvaluateRules(rules, context, ds, templates) == EvaluateFrom(rules, 1, context, ds, templates)

\* RuleEngine.get_all_rules
GetAllRules(rules) ==
    [ i \in 1..Len(rules) |->
        [ id          |-> IF "id" \in DOMAIN rules[i] THEN Some(rules[i].id) ELSE None,
          name        |-> IF "name" \in DOMAIN rules[i] THEN Some(rules[i].name) ELSE None,
          priority    |-> IF "priority" \in DOMAIN rules[i] THEN Some(rules[i].priority) ELSE None,
          active      |-> Get(rules[i], "active", TRUE),
          tags        |-> Get(rules[i], "tags", <<>>),
          message_ref |-> IF "message_ref" \in DOMAIN rules[i] THEN Some(rules[i].message_ref)
                          ELSE None ] ]

\* A slip: a rule is returned when none has the id.
GetRuleById_FirstWhenMissing(rules, rule_id) ==
    LET hits == {i \in 1..Len(rules) : "id" \in DOMAIN rules[i] /\ rules[i].id = rule_id} IN
    IF rules = <<>> THEN None
    ELSE IF hits = {} THEN Some(rules[1])
    ELSE Some(rules[CHOOSE i \in hits : \A k \in hits : i <= k])

\* RuleEngine.get_rule_by_id: the first rule with that id, or None.
GetRuleById(rules, rule_id) ==
    LET hits == {i \in 1..Len(rules) : "id" \in DOMAIN rules[i] /\ rules[i].id = rule_id} IN
    IF hits = {} THEN None
    ELSE Some(rules[CHOOSE i \in hits : \A k \in hits : i <= k])

\* ------------------------------------------------------------------------
\* RuleEngine.__init__ / _load_rules / reload
\* ------------------------------------------------------------------------

DefaultPriority == 999

SortKey(r) == Get(r, "priority", DefaultPriority)

\* A slip: an unstable sort, r goes before the elements of equal key.
RECURSIVE InsertSorted_Unstable(_, _)
InsertSorted_Unstable(s, r) ==
    IF s = <<>> THEN <<r>>
    ELSE IF SortKey(Head(s)) < SortKey(r) THEN <<Head(s)>> \o InsertSorted_Unstable(Tail(s), r)
    ELSE <<r>> \o s

\* Insert r into the sorted sequence s after every element whose key is <= its key.
RECURSIVE InsertSorted(_, _)
InsertSorted(s, r) ==
    IF s = <<>> THEN <<r>>
    ELSE IF SortKey(Head(s)) <= SortKey(r) THEN <<Head(s)>> \o InsertSorted(Tail(s), r)
    ELSE <<r>> \o s

\* sorted(xs, key=priority): a stable sort.
RECURSIVE SortedByPriority(_)
SortedByPriority(xs) ==
    IF xs = <<>> THEN <<>>
    ELSE InsertSorted(SortedByPriority(SubSeq(xs, 1, Len(xs) - 1)), xs[Len(xs)])

IsActive(r) == Get(r, "active", TRUE)

\* [r for r in config.get("rules", []) if r.get("active", True)]
ActiveRules(config) == SelectSeq(Get(config, "rules", <<>>), IsActive)

RulesOf(config) == SortedByPriority(ActiveRules(config))

TemplatesOf(config) == Get(config, "condition_templates", EmptyBlock)

DataSourcesOf(config) == Get(config, "data_sources", EmptyBlock)

\* _load_rules: open() and json.load() of the rules file.  The file is
\*   [kind |-> "missing"]  open() raises,
\*   [kind |-> "badjson"]  json.load() raises,
\*   [kind |-> "json", config |-> j]  json.load() returns j.
LoadRaises(file) == file.kind # "json"

\* A slip: the old rules and templates are dropped before the file is loaded.
ReloadOutcome_ClearFirst(file, eng) ==
    IF LoadRaises(file)
    THEN [eng |-> [eng EXCEPT !.rules = <<>>, !.templates = EmptyBlock], raised |-> TRUE]
    ELSE IF ~IsObject(file.config)
    THEN [eng |-> [eng EXCEPT !.config = file.config], raised |-> TRUE]
    ELSE [eng |-> [ config       |-> file.config,
                    rules        |-> RulesOf(file.config),
                    templates    |-> TemplatesOf(file.config),
                    data_sources |-> eng.data_sources ],
          raised |-> FALSE]

\* Reload, as one call: the engine fields after it, and whether it raised.
\* An engine is [config, rules, templates, data_sources].
ReloadOutcome(file, eng) ==
    IF LoadRaises(file) THEN [eng |-> eng, raised |-> TRUE]
    ELSE IF ~IsObject(file.config)
    THEN [eng |-> [eng EXCEPT !.config = file.config], raised |-> TRUE]
    ELSE [eng |-> [ config       |-> file.config,
                    rules        |-> RulesOf(file.config),
                    templates    |-> TemplatesOf(file.config),
                    data_sources |-> eng.data_sources ],
          raised |-> FALSE]

\* __init__ on a file that loads.
Construct(file) ==
    [ config       |-> file.config,
      rules        |-> RulesOf(file.config),
      templates    |-> TemplatesOf(file.config),
      data_sources |-> DataSourcesOf(file.config) ]

ConstructRaises(file) == LoadRaises(file) \/ ~IsObject(file.config)

\* ------------------------------------------------------------------------
\* Inputs: contexts, data-source results, rules, configurations
\* ------------------------------------------------------------------------

Name(seg) == <<seg>>

StrMember == PyStr(<<"M", "e", "m", "b", "e", "r">>)

StrBrokerPadded == PyStr(<<" ", "B", "R", "O", "K", "E", "R", " ">>)

CtxEmpty == PyDict(EmptyMap)

CtxMemberVA ==
    PyDict((Name("HCCustomerType") :> StrMember)
           @@ (<<"Policy", "PolicyState">> :> PyStr(<<"V", "A">>)))

CtxBrokerCA ==
    PyDict((Name("HCCustomerType") :> StrBrokerPadded)
           @@ (Name("Policy") :> PyDict(Name("PolicyState") :> PyStr(<<"C", "A">>))))

Contexts == {CtxEmpty, CtxMemberVA, CtxBrokerCA}

DsEmpty == PyDict(EmptyMap)

DsFehbp ==
    PyDict(Name("fehbp_address")
           :> PyDict(Name("MailingAddress") :> PyStr(<<"P", "O", " ", "1">>)))

DsNoAddress == PyDict(Name("fehbp_address") :> PyNone)

DataSourceResults == {DsEmpty, DsFehbp, DsNoAddress}

IsMember == [field |-> Name("HCCustomerType"), op |-> "eq", val |-> PyStr(<<"m", "e", "m", "b", "e", "r">>)]

IsBroker == [field |-> Name("HCCustomerType"), op |-> "in",
             val |-> PyList(<<PyStr(<<"A", "g", "e", "n", "t">>), PyStr(<<"B", "r", "o", "k", "e", "r">>)>>)]

StateIs(st) == [field |-> <<"Policy", "PolicyState">>, op |-> "equals", val |-> PyStr(st)]

TemplatesA == [is_va |-> StateIs(<<"V", "A">>), is_broker |-> IsBroker]

TemplatesB == [is_va |-> StateIs(<<"C", "A">>)]

SourcesA == [fehbp_address |-> "D_FEHBPCaseandAddressData"]

SourcesB == [group_details |-> "D_GroupDetails"]

RegistryA == [condition_templates |-> TemplatesA, data_sources |-> SourcesA]

RegistryB == [condition_templates |-> TemplatesB, data_sources |-> SourcesB]

Registries == {RegistryA, RegistryB}

RuleMember ==
    [ id |-> "R_MEMBER", name |-> "Member", priority |-> 10, active |-> TRUE,
      conditions |-> IsMember, message_ref |-> "MSG_MEMBER",
      placeholders |-> <<"Policy.PolicyState">>, tags |-> <<"member">> ]

RuleVA ==
    [ id |-> "R_VA", name |-> "Virginia", priority |-> 10,
      conditions |-> [use_template |-> "is_va"], message_ref |-> "MSG_VA" ]

RuleDefault ==
    [ id |-> "R_DEFAULT", name |-> "Default",
      conditions |-> [all |-> <<>>], message_ref |-> "MSG_DEFAULT" ]

RuleOff ==
    [ id |-> "R_OFF", name |-> "Retired", priority |-> 5, active |-> FALSE,
      conditions |-> [any |-> <<[not |-> [use_template |-> "retired"]]>>],
      message_ref |-> "MSG_OFF" ]

SubBroker ==
    [ id |-> "S_BROKER", conditions |-> [use_template |-> "is_broker"],
      message_ref |-> "MSG_SUB_BROKER", placeholders |-> <<"fehbp_address.MailingAddress">> ]

SubVA == [ id |-> "S_VA", conditions |-> [use_template |-> "is_va"] ]

SubMember == [ conditions |-> IsMember, placeholders |-> <<>> ]

RuleSub ==
    [ id |-> "R_SUB", name |-> "FEHBP", priority |-> 7,
      conditions |-> [source |-> Name("fehbp_address"), op |-> "is_not_empty"],
      message_ref |-> "MSG_SUB", placeholders |-> <<"HCCustomerType">>,
      tags |-> <<"fehbp">>, sub_rules |-> <<SubBroker, SubVA, SubMember>> ]

RuleAddress ==
    [ id |-> "R_ADDRESS", name |-> "Address", priority |-> 10,
      conditions |-> [all |-> << [source |-> Name("fehbp_address"),
                                  field |-> Name("MailingAddress"),
                                  op |-> "exists_with_value"] >>],
      sub_rules |-> <<>> ]

\* Rules with configuration defects: conditions that are no object, a sub-rule
\* whose conditions are null, no conditions key, and conditions that are {}.
RuleBroken ==
    [ id |-> "R_BROKEN", name |-> "Broken", priority |-> 1,
      conditions |-> PyStr(<<"x">>), message_ref |-> "MSG_BROKEN" ]

RuleSubFault ==
    [ id |-> "R_SUBFAULT", name |-> "SubFault", priority |-> 2,
      conditions |-> [all |-> <<>>], message_ref |-> "MSG_SUBFAULT",
      sub_rules |-> << [id |-> "S_NULL", conditions |-> PyNone] >> ]

RuleBare == [ id |-> "R_BARE", name |-> "Bare", priority |-> 20, message_ref |-> "MSG_BARE" ]

RuleBlank ==
    [ id |-> "R_BLANK", name |-> "Blank", priority |-> 20,
      conditions |-> EmptyBlock, message_ref |-> "MSG_BLANK" ]

RulePool == {RuleMember, RuleVA, RuleDefault, RuleOff, RuleSub, RuleAddress}

\* The most rules a configuration of the initial state declares.
MaxRules == 2

IsInjective(s) == \A i, j \in 1..Len(s) : i # j => s[i] # s[j]

RuleLists(n) == {s \in UNION {[1..k -> RulePool] : k \in 0..n} : IsInjective(s)}

Configs ==
    {[rules |-> s] @@ reg : s \in RuleLists(MaxRules), reg \in Registries}
    \cup {RegistryA}

MissingFile == [kind |-> "missing"]

BadJsonFile == [kind |-> "badjson"]

JsonFile(j) == [kind |-> "json", config |-> j]

\* What the rules file is overwritten with while the engine runs.
WrittenFiles ==
    { MissingFile, BadJsonFile, JsonFile(PyList(<<>>)), JsonFile(RegistryB),
      JsonFile([rules |-> <<RuleVA, RuleMember>>] @@ RegistryB),
      JsonFile([rules |-> <<RuleDefault, RuleVA, RuleOff, RuleMember>>] @@ RegistryA),
      JsonFile([rules |-> <<RuleSub, RuleVA, RuleBlank>>]),
      JsonFile([rules |-> <<RuleMember, RuleSubFault, RuleBroken, RuleBare>>] @@ RegistryA) }

\* ------------------------------------------------------------------------
\* MessageResolver: templates, _load_all, resolve
\* A template file is the sequence of the pieces that content.split("---")
\* yields; a piece is a sequence of tokens, [lit |-> text] or [ph |-> name]
\* for {{name}}.  The messages directory is
\*   [exists |-> BOOLEAN, files |-> [stem -> [readable, content]]].
\* ------------------------------------------------------------------------

Lit(text) == [lit |-> text]

Ph(name) == [ph |-> name]

IsSpace(tok) == "lit" \in DOMAIN tok /\ tok.lit \in Whitespace

RECURSIVE LStripTokens(_)
LStripTokens(toks) ==
    IF toks # <<>> /\ IsSpace(Head(toks)) THEN LStripTokens(Tail(toks)) ELSE toks

RECURSIVE RStripTokens(_)
RStripTokens(toks) ==
    IF toks # <<>> /\ IsSpace(toks[Len(toks)])
    THEN RStripTokens(SubSeq(toks, 1, Len(toks) - 1))
    ELSE toks

StripTokens(toks) == RStripTokens(LStripTokens(toks))

\* "---".join(parts)
RECURSIVE JoinParts(_)
JoinParts(parts) ==
    IF parts = <<>> THEN <<>>
    ELSE IF Len(parts) = 1 THEN parts[1]
    ELSE parts[1] \o <<Lit("---")>> \o JoinParts(Tail(parts))

\* The body stored for a file's content (message_resolver.py 37-41).
BodyOf(content) ==
    IF Len(content) >= 3
    THEN StripTokens(JoinParts(SubSeq(content, 3, Len(content))))
    ELSE StripTokens(JoinParts(content))

\* One iteration of the loop of _load_all: the cache after md_file was read.
LoadFile(cache, stem, f) ==
    [k \in DOMAIN cache \cup {stem} |-> IF k = stem THEN BodyOf(f.content) ELSE cache[k]]

EmptyCache == [k \in {} |-> <<>>]

\* _load_all over the files in the order given; [cache, raised].
RECURSIVE LoadAll(_, _, _)
LoadAll(cache, dir, order) ==
    IF ~dir.exists \/ order = <<>> THEN [cache |-> cache, raised |-> FALSE]
    ELSE IF ~dir.files[Head(order)].readable THEN [cache |-> cache, raised |-> TRUE]
    ELSE LoadAll(LoadFile(cache, Head(order), dir.files[Head(order)]), dir, Tail(order))

\* str(value) substituted for a placeholder, or the bracketed token.
Substituted(value) == [text |-> value]

Unresolved(placeholder) == [unresolved |-> placeholder]

Raise == [raise |-> TRUE]

\* replace_placeholder with the context's dotted key tried before the data source.
ReplacePlaceholder_ContextFirst(placeholder, context, ds) ==
    LET source_name == <<Head(placeholder)>>
        rest == Tail(placeholder)
        dotted == Len(placeholder) > 1
        in_source == dotted /\ source_name \in DOMAIN ds.d /\ ds.d[source_name].t = "dict"
        from_source == IF in_source THEN DictGet(ds.d[source_name], rest, PyStr(<<>>))
                       ELSE PyStr(<<>>)
        full == DictGet(context, placeholder, PyNone)
        last == DictGet(context, rest, PyNone) IN
    IF full.t # "none" THEN Substituted(full)
    ELSE IF in_source /\ Truthy(from_source) THEN Substituted(from_source)
    ELSE IF dotted /\ last.t # "none" THEN Substituted(last)
    ELSE Unresolved(placeholder)

\* replace_placeholder (message_resolver.py 79-109): the token that replaces
\* {{placeholder}}, or Raise when the lookup raises.
ReplacePlaceholder(placeholder, context, ds) ==
    LET source_name == <<Head(placeholder)>>
        rest == Tail(placeholder)
        dotted == Len(placeholder) > 1
        in_source == dotted /\ source_name \in DOMAIN ds.d
        from_source == IF in_source /\ ds.d[source_name].t = "dict"
                       THEN DictGet(ds.d[source_name], rest, PyStr(<<>>))
                       ELSE PyStr(<<>>)
        full == DictGet(context, placeholder, PyNone)
        last == DictGet(context, rest, PyNone) IN
    IF in_source /\ ds.d[source_name].t # "dict" THEN Raise
    ELSE IF in_source /\ Truthy(from_source) THEN Substituted(from_source)
    ELSE IF full.t # "none" THEN Substituted(full)
    ELSE IF dotted /\ last.t # "none" THEN Substituted(last)
    ELSE Unresolved(placeholder)

\* The scan that takes only tokens written with their braces for matches.
Scan_DelimitedOnly(body) == body

\* The matches of r"\{\{(.+?)\}\}" in a body (message_resolver.py 111), left
\* to right.  [ph |-> name] is a token written on one line with its braces.
\* Braces can also stand as lexemes of their own, Lit("{{") and Lit("}}"), with
\* the group between them given by its dot-separated segments and the blanks
\* around them: '.' matches no line break and '+' needs one character, so
\* Lit("{{") starts a match only if the first Lit("}}") at least two lexemes
\* on is reached without crossing Lit("\n"); the placeholder is the group
\* stripped.  (No Lit("{{") that starts no match is followed by a [ph |-> name]
\* on its line.)
RECURSIVE Scan(_)
Scan(body) ==
    IF body = <<>> THEN <<>>
    ELSE IF Head(body) # Lit("{{") THEN <<Head(body)>> \o Scan(Tail(body))
    ELSE LET closes == {j \in 3..Len(body) : body[j] = Lit("}}")}
             first == CHOOSE j \in closes : \A k \in closes : j <= k
             group == StripTokens(SubSeq(body, 2, first - 1))
             placeholder == IF group = <<>> THEN <<"">>
                            ELSE [i \in 1..Len(group) |-> group[i].lit] IN
         IF closes # {} /\ \A k \in 2..(first - 1) : body[k] # Lit("\n")
         THEN <<Ph(placeholder)>> \o Scan(SubSeq(body, first + 1, Len(body)))
         ELSE <<Head(body)>> \o Scan(Tail(body))

\* re.sub over the template body.
SubstituteAll(body, context, ds) ==
    LET matches == Scan(body) IN
    [i \in 1..Len(matches) |->
        IF "ph" \in DOMAIN matches[i] THEN ReplacePlaceholder(matches[i].ph, context, ds)
        ELSE matches[i]]

\* MessageResolver.resolve: whether it raises, and what it returns: None, or
\* Some([markdown |-> ...]) (the html rendering is left out).
Resolve(cache, message_ref, context, ds) ==
    IF message_ref \notin DOMAIN cache THEN [raised |-> FALSE, value |-> None]
    ELSE LET md == SubstituteAll(cache[message_ref], context, ds) IN
         IF \E i \in 1..Len(md) : md[i] = Raise THEN [raised |-> TRUE, value |-> None]
         ELSE [raised |-> FALSE, value |-> Some([markdown |-> md])]

FrontMatter == <<Lit("title: x"), Lit("\n")>>

ContentMember ==
    << <<>>, FrontMatter,
       <<Lit("\n"), Lit("Mail to "), Ph(<<"fehbp_address", "MailingAddress">>), Lit("\n")>> >>

ContentVA == << <<Lit("State: "), Ph(<<"Policy", "PolicyState">>)>> >>

ContentVA2 == << <<>>, FrontMatter, <<Lit("Virginia: "), Ph(<<"HCCustomerType">>)>> >>

File(content) == [readable |-> TRUE, content |-> content]

LockedFile == [readable |-> FALSE, content |-> <<>>]

NoDir == [exists |-> FALSE, files |-> EmptyCache]

Dir(files) == [exists |-> TRUE, files |-> files]

MessageDirs ==
    { NoDir,
      Dir(EmptyCache),
      Dir([MSG_MEMBER |-> File(ContentMember), MSG_VA |-> File(ContentVA)]),
      Dir([MSG_MEMBER |-> File(ContentMember), MSG_VA |-> File(ContentVA2)]),
      Dir([MSG_MEMBER |-> LockedFile, MSG_VA |-> File(ContentVA2)]),
      Dir([MSG_VA |-> File(ContentVA)]),
      Dir([ MSG_MEMBER |->
              File(<< <<Lit("Dear "), Lit("{{"), Lit(" "), Lit("HCCustomerType"), Lit(" "),
                        Lit("}}"), Lit("\n"),
                        Lit("{{"), Lit("Policy"), Lit("\n"), Lit("PolicyState"), Lit("}}"),
                        Lit(" "), Ph(<<"Policy", "PolicyState">>), Lit(" "),
                        Lit("{{"), Lit("}}")>> >>),
            MSG_VA |->
              File(<< <<Lit("Intro"), Lit("\n")>>,
                      <<Lit("\n"), Ph(<<"HCCustomerType">>), Lit("\n")>>,
                      <<Lit("\n"), Lit("End"), Lit("\n")>> >>) ]) }

MessageRefs == {"MSG_MEMBER", "MSG_VA", "MSG_OFF"}

\* The orders in which glob("*.md") may yield the stems.
Orders(stems) == {o \in [1..Cardinality(stems) -> stems] : IsInjective(o)}

\* ------------------------------------------------------------------------
\* State
\* ------------------------------------------------------------------------

VARIABLES
    bb,             \* the Bitbucket client: [configured |-> FALSE], or
                    \*   [configured |-> TRUE, remote |-> the rules file in the repository]
    file,           \* the rules file on disk (rules_path)
    config,         \* RuleEngine.config
    rules,          \* RuleEngine.rules
    templates,      \* RuleEngine.templates
    data_sources,   \* RuleEngine.data_sources
    msgdir,         \* the messages directory on disk (messages_dir)
    cache,          \* MessageResolver.cache
    context,        \* the context argument of the last call (evaluate, resolve)
    dsr,            \* the data_source_results argument of the last call
    result,         \* what the last call returned: None or Some(dict)
    lastOp,         \* the last call and whether it raised
    epc,            \* where a thread stands in evaluate: "idle", "scan", "done"
    eRules,         \* the list that thread's for loop iterates over
    eIdx,           \* the position of that loop in eRules
    rpc,            \* where a thread stands in RuleEngine.reload:
                    \*   "idle", "config", "rules", "done"
    before,         \* the engine's [rules, templates] when that reload began
    mpc,            \* where a thread stands in MessageResolver.reload:
                    \*   "idle", "loading"
    todo,           \* the stems the loop of _load_all has yet to read
    cacheBefore     \* the cache when that reload began

engineVars == <<config, rules, templates, data_sources>>

callVars == <<context, dsr, result>>

resolverVars == <<msgdir, cache>>

evalThreadVars == <<epc, eRules, eIdx>>

reloadThreadVars == <<rpc, before>>

msgThreadVars == <<mpc, todo, cacheBefore>>

threadVars == <<epc, eRules, eIdx, rpc, before, mpc, todo, cacheBefore>>

vars == <<bb, file, config, rules, templates, data_sources, msgdir, cache,
          context, dsr, result, lastOp,
          epc, eRules, eIdx, rpc, before, mpc, todo, cacheBefore>>

Engine == [config |-> config, rules |-> rules, templates |-> templates, data_sources |-> data_sources]

SetEngine(eng) ==
    /\ config' = eng.config
    /\ rules' = eng.rules
    /\ templates' = eng.templates
    /\ data_sources' = eng.data_sources

Op(name, raised) == [op |-> name, raised |-> raised]

\* A step that is no evaluate or resolve call: no arguments, and None returned.
NoCall ==
    /\ context' = CtxEmpty
    /\ dsr' = DsEmpty
    /\ result' = None

\* RuleEngine(rules_path) has returned, on a rules file that holds f.
EngineBuilt(f) ==
    /\ file = f
    /\ config = Construct(f).config
    /\ rules = Construct(f).rules
    /\ templates = Construct(f).templates
    /\ data_sources = Construct(f).data_sources

\* MessageResolver(messages_dir) has returned, on a directory that holds dir.
ResolverBuilt(dir, order) ==
    /\ msgdir = dir
    /\ ~LoadAll(EmptyCache, dir, order).raised
    /\ cache = LoadAll(EmptyCache, dir, order).cache

NoThreads ==
    /\ epc = "idle" /\ eRules = <<>> /\ eIdx = 0
    /\ rpc = "idle" /\ before = <<>>
    /\ mpc = "idle" /\ todo = {} /\ cacheBefore = EmptyCache

NothingCalled ==
    /\ context = CtxEmpty
    /\ dsr = DsEmpty
    /\ result = None
    /\ lastOp = Op("init", FALSE)

\* ------------------------------------------------------------------------
\* Spec: the engine, one call at a time
\* ------------------------------------------------------------------------

Init ==
    /\ bb = [configured |-> FALSE]
    /\ \E c \in Configs : EngineBuilt(JsonFile(c))
    /\ ResolverBuilt(NoDir, <<>>)
    /\ NothingCalled
    /\ NoThreads

\* engine.evaluate(c, d)
Evaluate(c, d) ==
    /\ context' = c
    /\ dsr' = d
    /\ result' = EvaluateRules(rules, c, d, templates)
    /\ lastOp' = Op("evaluate", FALSE)
    /\ UNCHANGED <<bb, file, engineVars, resolverVars, threadVars>>

\* engine.reload()
Reload ==
    /\ SetEngine(ReloadOutcome(file, Engine).eng)
    /\ lastOp' = Op("reload", ReloadOutcome(file, Engine).raised)
    /\ NoCall
    /\ UNCHANGED <<bb, file, resolverVars, threadVars>>

\* The rules file is replaced on disk.
WriteRulesFile(f) ==
    /\ f # file
    /\ file' = f
    /\ lastOp' = Op("write", FALSE)
    /\ NoCall
    /\ UNCHANGED <<bb, engineVars, resolverVars, threadVars>>

Next ==
    \/ \E c \in Contexts, d \in DataSourceResults : Evaluate(c, d)
    \/ Reload
    \/ \E f \in WrittenFiles : WriteRulesFile(f)

Spec == Init /\ [][Next]_vars

\* ------------------------------------------------------------------------
\* SpecConc: one evaluate call and one reload call of the same engine, on two
\* threads.  A thread switch can fall between any two attribute accesses; the
\* steps below are the reads and writes of the engine's attributes, with the
\* evaluation of one rule (which reads self.templates) taken as one step.
\* ------------------------------------------------------------------------

\* The configurations the rules file holds when the reload runs.
ReloadedConfigs ==
    { [rules |-> <<RuleVA, RuleMember>>] @@ RegistryB,
      [rules |-> <<RuleMember, RuleSub>>] @@ RegistryB,
      [rules |-> <<RuleDefault, RuleVA, RuleOff, RuleMember>>] @@ RegistryA,
      [rules |-> <<RuleSub, RuleVA>>] }

InitConc ==
    /\ bb = [configured |-> FALSE]
    /\ \E c \in Configs :
        /\ config = Construct(JsonFile(c)).config
        /\ rules = Construct(JsonFile(c)).rules
        /\ templates = Construct(JsonFile(c)).templates
        /\ data_sources = Construct(JsonFile(c)).data_sources
    /\ file \in {JsonFile(c) : c \in ReloadedConfigs}
    /\ ResolverBuilt(NoDir, <<>>)
    /\ NothingCalled
    /\ epc = "idle" /\ eRules = <<>> /\ eIdx = 0
    /\ rpc = "idle" /\ before = [rules |-> rules, templates |-> templates]
    /\ mpc = "idle" /\ todo = {} /\ cacheBefore = EmptyCache

\* ds = data_source_results or {}; for rule in self.rules: the loop binds the list.
EvalBegin(c, d) ==
    /\ epc = "idle"
    /\ epc' = "scan"
    /\ context' = c
    /\ dsr' = d
    /\ eRules' = rules
    /\ eIdx' = 1
    /\ UNCHANGED <<bb, file, engineVars, resolverVars, result, lastOp, reloadThreadVars, msgThreadVars>>

\* One iteration of the loop: the try block for eRules[eIdx], on self.templates.
EvalRule ==
    /\ epc = "scan"
    /\ eIdx <= Len(eRules)
    /\ LET o == TryRule(eRules[eIdx], context, dsr, templates) IN
        IF o.kind = "match"
        THEN /\ result' = Some(o.m)
             /\ epc' = "done"
             /\ lastOp' = Op("evaluate", FALSE)
             /\ eIdx' = eIdx
        ELSE /\ eIdx' = eIdx + 1
             /\ UNCHANGED <<result, epc, lastOp>>
    /\ UNCHANGED <<bb, file, engineVars, resolverVars, context, dsr, eRules, reloadThreadVars, msgThreadVars>>

\* The loop ran out: return None.
EvalEnd ==
    /\ epc = "scan"
    /\ eIdx > Len(eRules)
    /\ result' = None
    /\ epc' = "done"
    /\ lastOp' = Op("evaluate", FALSE)
    /\ UNCHANGED <<bb, file, engineVars, resolverVars, context, dsr, eRules, eIdx, reloadThreadVars, msgThreadVars>>

\* self.config = self._load_rules()
ReloadConfig ==
    /\ rpc = "idle"
    /\ IF LoadRaises(file)
       THEN rpc' = "done" /\ UNCHANGED config
       ELSE rpc' = "config" /\ config' = file.config
    /\ UNCHANGED <<bb, file, rules, templates, data_sources, resolverVars, callVars, lastOp,
                   evalThreadVars, before, msgThreadVars>>

\* self.rules = sorted([...], key=...)
ReloadRules ==
    /\ rpc = "config"
    /\ IF IsObject(config)
       THEN rpc' = "rules" /\ rules' = RulesOf(config)
       ELSE rpc' = "done" /\ UNCHANGED rules
    /\ UNCHANGED <<bb, file, config, templates, data_sources, resolverVars, callVars, lastOp,
                   evalThreadVars, before, msgThreadVars>>

\* self.templates = self.config.get("condition_templates", {})
ReloadTemplates ==
    /\ rpc = "rules"
    /\ rpc' = "done"
    /\ templates' = TemplatesOf(config)
    /\ UNCHANGED <<bb, file, config, rules, data_sources, resolverVars, callVars, lastOp,
                   evalThreadVars, before, msgThreadVars>>

NextConc ==
    \/ \E c \in Contexts, d \in DataSourceResults : EvalBegin(c, d)
    \/ EvalRule
    \/ EvalEnd
    \/ ReloadConfig
    \/ ReloadRules
    \/ ReloadTemplates

SpecConc == InitConc /\ [][NextConc]_vars

\* ------------------------------------------------------------------------
\* SpecMsg: the message resolver; resolve calls on one thread, reload on
\* another.  reload is cache.clear() followed by the loop of _load_all, one
\* file per step; resolve reads self.cache once.
\* ------------------------------------------------------------------------

InitMsg ==
    /\ bb = [configured |-> FALSE]
    /\ EngineBuilt(JsonFile([rules |-> <<RuleVA, RuleMember>>] @@ RegistryA))
    /\ \E dir \in MessageDirs : \E o \in Orders(DOMAIN dir.files) : ResolverBuilt(dir, o)
    /\ NothingCalled
    /\ NoThreads

\* message_resolver.resolve(ref, c, d)
ResolveCall(ref, c, d) ==
    /\ ~Resolve(cache, ref, c, d).raised
    /\ context' = c
    /\ dsr' = d
    /\ result' = Resolve(cache, ref, c, d).value
    /\ lastOp' = [op |-> "resolve", raised |-> FALSE, ref |-> ref]
    /\ UNCHANGED <<bb, file, engineVars, resolverVars, threadVars>>

\* resolve raises: a placeholder names a data source whose result is no mapping.
ResolveRaises(ref, c, d) ==
    /\ Resolve(cache, ref, c, d).raised
    /\ lastOp' = [op |-> "resolve", raised |-> TRUE, ref |-> ref]
    /\ context' = c
    /\ dsr' = d
    /\ result' = None
    /\ UNCHANGED <<bb, file, engineVars, resolverVars, threadVars>>

\* reload: self.cache.clear(), and _load_all up to the start of its loop.
MsgReloadClear ==
    /\ mpc = "idle"
    /\ cacheBefore' = cache
    /\ cache' = EmptyCache
    /\ IF msgdir.exists /\ DOMAIN msgdir.files # {}
       THEN /\ mpc' = "loading"
            /\ todo' = DOMAIN msgdir.files
            /\ UNCHANGED lastOp
       ELSE /\ mpc' = "idle"
            /\ todo' = {}
            /\ lastOp' = Op("msg_reload", FALSE)
    /\ UNCHANGED <<bb, file, engineVars, msgdir, callVars, evalThreadVars, reloadThreadVars>>

\* One iteration of the loop of _load_all, on the file glob yields next.
MsgReloadFile(stem) ==
    /\ mpc = "loading"
    /\ stem \in todo
    /\ LET step == LoadAll(cache, msgdir, <<stem>>) IN
        /\ cache' = step.cache
        /\ IF step.raised
           THEN mpc' = "idle" /\ todo' = {} /\ lastOp' = Op("msg_reload", TRUE)
           ELSE IF todo = {stem}
           THEN mpc' = "idle" /\ todo' = {} /\ lastOp' = Op("msg_reload", FALSE)
           ELSE mpc' = "loading" /\ todo' = todo \ {stem} /\ UNCHANGED lastOp
    /\ UNCHANGED <<bb, file, engineVars, msgdir, callVars, evalThreadVars, reloadThreadVars,
                   cacheBefore>>

\* The messages directory is replaced on disk (no reload is running).
WriteMessages(dir) ==
    /\ mpc = "idle"
    /\ dir # msgdir
    /\ msgdir' = dir
    /\ lastOp' = Op("write", FALSE)
    /\ NoCall
    /\ UNCHANGED <<bb, file, engineVars, cache, threadVars>>

NextMsg ==
    \/ \E ref \in MessageRefs, c \in Contexts, d \in DataSourceResults : ResolveCall(ref, c, d)
    \/ \E ref \in MessageRefs, c \in Contexts, d \in DataSourceResults : ResolveRaises(ref, c, d)
    \/ MsgReloadClear
    \/ \E stem \in todo : MsgReloadFile(stem)
    \/ \E dir \in MessageDirs : WriteMessages(dir)

SpecMsg == InitMsg /\ [][NextMsg]_vars

\* ------------------------------------------------------------------------
\* SpecFn: the evaluator's functions, one call at a time, on an engine built
\* from a fixed registry: _normalize, _compare, _get_field,
\* _evaluate_condition and _evaluate_block.  lastOp records the call:
\* [op, raised, args, out].
\* ------------------------------------------------------------------------

\* Actual and configured values: absent, booleans, numbers, strings in several
\* cases and paddings, sequences, a mapping.
FnValues ==
    { PyNone, PyBool(TRUE), PyBool(FALSE), PyInt(0), PyInt(1),
      PyStr(<<>>), PyStr(<<" ">>), PyStr(<<"V", "A">>), PyStr(<<" ", "v", "a", "\t">>),
      PyStr(<<"T", "r", "u", "e">>), PyStr(<<" ", "F", "A", "L", "S", "E", " ">>),
      PyStr(<<"f", "a", "l", "s", "e">>), PyStr(<<"F", "a", "l", "s", "e">>),
      PyList(<<>>), PyList(<<PyStr(<<"V", "A">>)>>),
      PyList(<<PyStr(<<"v", "a">>), PyStr(<<"t", "r", "u", "e">>), PyNone>>),
      PyDict(EmptyMap) }

\* The operators _compare knows, and two it does not.
FnOps ==
    { "eq", "equals", "neq", "not_equals", "in", "not_in", "is_empty", "is_not_empty",
      "exists_with_value", "is_empty_or_false", "bogus", "" }

\* Contexts that hold Policy.PolicyState as a flat dotted key, as a nested
\* mapping, under its short name, or in any combination of these.
FnContexts ==
    { PyDict(f @@ n @@ sh) :
        f \in { EmptyMap, <<"Policy", "PolicyState">> :> PyStr(<<"V", "A">>) },
        n \in { EmptyMap,
                Name("Policy") :> PyDict(Name("PolicyState") :> PyStr(<<"M", "D">>)),
                Name("Policy") :> PyDict(Name("PolicyState") :> PyNone),
                Name("Policy") :> PyDict(EmptyMap),
                Name("Policy") :> PyStr(<<"x">>) },
        sh \in { EmptyMap, Name("PolicyState") :> PyStr(<<"N", "V">>),
                 Name("PolicyState") :> PyBool(FALSE) } }

\* Data-source results for the source "src": no entry, mappings (empty, with
\* only empty values, with values), and results that are no mapping.
FnSources ==
    { PyDict(EmptyMap) }
    \cup { PyDict(Name("src") :> r) :
            r \in { PyDict(EmptyMap),
                    PyDict(Name("PolicyState") :> PyStr(<<>>)),
                    PyDict((Name("PolicyState") :> PyNone) @@ (Name("Other") :> PyList(<<>>))),
                    PyDict((Name("PolicyState") :> PyStr(<<"V", "A">>)) @@ (Name("Other") :> PyNone)),
                    PyDict(Name("PolicyState") :> PyBool(FALSE)),
                    PyDict(<<"Policy", "PolicyState">> :> PyInt(0)),
                    PyNone, PyStr(<<"n", "/", "a">>) } }

\* Leaves in the three lookup modes, with and without op and val.
FnLeaves ==
    { where @@ o @@ v :
        where \in { [field |-> <<"Policy", "PolicyState">>], [field |-> <<"PolicyState">>],
                    [source |-> Name("src"), field |-> Name("PolicyState")],
                    [source |-> Name("src"), field |-> <<"Policy", "PolicyState">>],
                    [source |-> Name("src")] },
        o \in { EmptyBlock } \cup { [op |-> x] : x \in FnOps },
        v \in { EmptyBlock, [val |-> PyStr(<<"v", "a">>)], [val |-> PyBool(FALSE)],
                [val |-> PyList(<<PyStr(<<"V", "A">>), PyStr(<<"N", "V">>)>>)] } }

\* Condition trees up to three combinators deep over two leaves and four
\* template references (a leaf template, a template that refers to another,
\* a name that is not registered, a name registered as null).
FnBlocks ==
    LET atoms == { StateIs(<<"V", "A">>), [source |-> Name("src"), op |-> "is_not_empty"],
                   [use_template |-> "is_va"], [use_template |-> "nested"],
                   [use_template |-> "missing"], [use_template |-> "void"] }
        seqs  == { <<>> } \cup { <<a>> : a \in atoms } \cup { <<a, b>> : a \in atoms, b \in atoms }
        one   == atoms \cup { [all |-> q] : q \in seqs } \cup { [any |-> q] : q \in seqs }
                       \cup { [not |-> a] : a \in atoms }
        outer == { StateIs(<<"V", "A">>), [use_template |-> "missing"] } IN
    one \cup { [not |-> b] : b \in one }
        \cup { [all |-> <<a, b>>] : a \in outer, b \in one \ atoms }
        \cup { [any |-> <<a, b>>] : a \in outer, b \in one \ atoms }

\* The calls made: the function, its arguments, and the context and
\* data-source results it reads.  Leaves that read the context are tried on
\* every context, leaves that read a data source on every data-source result
\* and on the context that holds no key and the one that holds all three;
\* trees on data-source results whose entries are mappings of two keys.
FnCalls ==
    { [fn |-> "normalize", args |-> <<v>>, context |-> CtxEmpty, dsr |-> DsEmpty] :
        v \in FnValues }
    \cup { [fn |-> "compare", args |-> <<actual, expected, op>>, context |-> CtxEmpty,
            dsr |-> DsEmpty] : actual \in FnValues, expected \in FnValues, op \in FnOps }
    \cup { [fn |-> "get_field", args |-> <<field>>, context |-> c, dsr |-> DsEmpty] :
            c \in FnContexts,
            field \in { <<"Policy", "PolicyState">>, <<"PolicyState">>, <<"Policy">>,
                        <<"Member", "Policy", "PolicyState">>,
                        <<"Policy", "PolicyState", "Code">>, <<"">> } }
    \cup { [fn |-> "evaluate_condition", args |-> <<cond>>, context |-> c, dsr |-> DsEmpty] :
            cond \in {l \in FnLeaves : "source" \notin DOMAIN l}, c \in FnContexts }
    \cup { [fn |-> "evaluate_condition", args |-> <<cond>>, context |-> c, dsr |-> d] :
            cond \in {l \in FnLeaves : "source" \in DOMAIN l /\ ("field" \in DOMAIN l \/ "val" \notin DOMAIN l)},
            c \in { CtxEmpty,
                    PyDict((<<"Policy", "PolicyState">> :> PyStr(<<"V", "A">>))
                           @@ (Name("Policy") :> PyDict(Name("PolicyState") :> PyStr(<<"M", "D">>)))
                           @@ (Name("PolicyState") :> PyStr(<<"N", "V">>))) },
            d \in FnSources }
    \cup { [fn |-> "evaluate_block", args |-> <<block>>, context |-> c, dsr |-> d] :
            block \in FnBlocks, c \in Contexts,
            d \in {x \in FnSources : \A k \in DOMAIN x.d :
                        x.d[k].t = "dict" /\ Cardinality(DOMAIN x.d[k].d) = 2} }
    \cup { [fn |-> "replace_placeholder", args |-> <<placeholder>>,
            context |-> PyDict(c.d @@ own), dsr |-> d] :
            placeholder \in { <<"src", "PolicyState">>, <<"src", "Policy", "PolicyState">>,
                              <<"Policy", "PolicyState">>, <<"Member", "Policy", "PolicyState">>,
                              <<"PolicyState">>, <<"Missing">> },
            c \in {x \in FnContexts : Name("Policy") \notin DOMAIN x.d},
            own \in { EmptyMap, <<"src", "PolicyState">> :> PyStr(<<"C", "A">>),
                      <<"src", "PolicyState">> :> PyNone,
                      <<"src", "Policy", "PolicyState">> :> PyStr(<<>>) },
            d \in FnSources }

\* The engine is built and one call is about to be made.
InitFn ==
    /\ bb = [configured |-> FALSE]
    /\ EngineBuilt(JsonFile(
          [ rules |-> <<RuleVA>>,
            condition_templates |->
              [ is_va  |-> StateIs(<<"V", "A">>),
                nested |-> [all |-> << [use_template |-> "is_va"],
                                       [not |-> [use_template |-> "missing"]] >>],
                void   |-> PyNone ] ]))
    /\ ResolverBuilt(NoDir, <<>>)
    /\ NoThreads
    /\ result = None
    /\ \E call \in FnCalls :
        /\ lastOp = [op |-> "call", raised |-> FALSE, fn |-> call.fn, args |-> call.args]
        /\ context = call.context
        /\ dsr = call.dsr

\* The call fn is pending.
Calling(fn) == lastOp.op = "call" /\ lastOp.fn = fn

\* The call returns out, or raises.
Returns(raised, out) ==
    /\ lastOp' = [op |-> lastOp.fn, raised |-> raised, args |-> lastOp.args, out |-> out]
    /\ UNCHANGED <<bb, file, engineVars, resolverVars, threadVars, callVars>>

\* engine._normalize(v)
CallNormalize ==
    /\ Calling("normalize")
    /\ Returns(FALSE, Normalize(lastOp.args[1]))

\* engine._compare(actual, expected, op)
CallCompare ==
    /\ Calling("compare")
    /\ Returns(FALSE, Compare(lastOp.args[1], lastOp.args[2], lastOp.args[3]))

\* engine._get_field(context, field)
CallGetField ==
    /\ Calling("get_field")
    /\ Returns(FALSE, GetField(context, lastOp.args[1]))

\* engine._evaluate_condition(cond, context, ds)
CallEvaluateCondition ==
    /\ Calling("evaluate_condition")
    /\ Returns(EvaluateCondition(lastOp.args[1], context, dsr) = "X",
               EvaluateCondition(lastOp.args[1], context, dsr))

\* engine._evaluate_block(block, context, ds)
CallEvaluateBlock ==
    /\ Calling("evaluate_block")
    /\ Returns(EvaluateBlock(lastOp.args[1], context, dsr, templates, 1) = "X",
               EvaluateBlock(lastOp.args[1], context, dsr, templates, 1))

\* replace_placeholder(match) within resolve(message_ref, context, ds), on a
\* match whose group strips to the placeholder.
CallReplacePlaceholder ==
    /\ Calling("replace_placeholder")
    /\ Returns(ReplacePlaceholder(lastOp.args[1], context, dsr) = Raise,
               ReplacePlaceholder(lastOp.args[1], context, dsr))

NextFn ==
    \/ CallReplacePlaceholder
    \/ CallNormalize
    \/ CallCompare
    \/ CallGetField
    \/ CallEvaluateCondition
    \/ CallEvaluateBlock

SpecFn == InitFn /\ [][NextFn]_vars

\* ------------------------------------------------------------------------
\* SpecApi: the HTTP handlers over one engine, one resolver and one Bitbucket
\* client, a request at a time: /api/chat and /api/evaluate (process_chat,
\* process_evaluate), the admin reads of the loaded rules (get_rule_by_id,
\* get_all_rules) and the admin update_rule.  lastOp records the request and
\* what the handler returned.
\* ------------------------------------------------------------------------

\* DataSourceResolver.resolve_all in mock mode: the three results, each a
\* mapping.  Texts that are only substituted are held as one element.
ResolveAll(c) ==
    LET account   == DictGet(c, Name("account_type"), PyStr(<<>>))
        has_fehbp == DictGet(c, Name("has_fehbp_address"), PyBool(FALSE))
        is_aso    == DictGet(c, Name("IsASO"), PyBool(FALSE))
        funding   == DictGet(c, Name("funding_type"), PyStr(<<>>))
        Is(v, text) == PyEq(v, PyStr(text)) IN
    PyDict(
        (Name("fehbp_address") :>
            IF Is(account, <<"F", "E", "H", "B", "P">>) \/ Truthy(has_fehbp)
            THEN PyDict(
                (Name("MailingAddress") :>
                    PyStr(<<"FEHBP Grievance & Appeals\nP.O. Box 21542\nEagan, MN 55121">>))
                @@ (Name("AddressHeader") :> PyStr(<<"FEHBP G&A Department">>))
                @@ (Name("AddressLine1") :> PyStr(<<"P.O. Box 21542">>))
                @@ (Name("AddressLine2") :> PyStr(<<"Eagan, MN 55121">>))
                @@ (Name("Department") :> PyStr(<<"Grievance and Appeals">>)))
            ELSE PyDict(EmptyMap))
        @@ (Name("group_details") :>
            PyDict(Name("FundingTypeCode") :>
                IF Truthy(is_aso) THEN PyStr(<<"A">>)
                ELSE IF Is(funding, <<"F", "u", "l", "l", "y", " ",
                                      "I", "n", "s", "u", "r", "e", "d">>)
                THEN PyStr(<<"E">>)
                ELSE PyStr(<<>>)))
        @@ (Name("account_type") :>
            PyDict(Name("AccountType") :>
                IF Is(account, <<"S", "H", "B", "P">>) THEN PyStr(<<"S", "H", "B", "P">>)
                ELSE IF Is(account, <<"N", "a", "t", "i", "o", "n", "a", "l">>)
                THEN PyStr(<<"N", "a", "t", "i", "o", "n", "a", "l">>)
                ELSE IF Is(account, <<"F", "E", "H", "B", "P">>)
                THEN PyStr(<<"F", "E", "H", "B", "P">>)
                ELSE IF \/ Is(account, <<"I", "n", "d", "i", "v", "i", "d", "u", "a", "l">>)
                        \/ Is(account, <<"E", "x", "c", "h", "a", "n", "g", "e">>)
                THEN PyStr(<<"I", "n", "d", "i", "v", "i", "d", "u", "a", "l">>)
                ELSE PyStr(<<>>))))

\* What process_chat and process_evaluate do with the match and with what
\* message_resolver.resolve returned for it (chat.py 61-88, 105-130): whether
\* the handler raises, and the ChatResponse it returns (message, rule_matched,
\* rule_name, confidence).  The two differ in the confidence of a match only.
Response(handler, match, resolved) ==
    LET found  == match # None /\ resolved # None
        raises == found /\ handler = "process_chat" /\ match[1].priority = None IN
    [ raised   |-> raises,
      response |->
        IF raises THEN None
        ELSE IF found
        THEN Some([ message      |-> resolved[1].markdown,
                    rule_matched |-> Some(match[1].rule_id),
                    rule_name    |-> Some(match[1].name),
                    confidence   |-> IF handler = "process_evaluate" THEN "high"
                                     ELSE IF match[1].priority[1] < 50 THEN "high"
                                     ELSE "medium" ])
        ELSE Some([ message      |-> <<Lit("NO_MATCH_MESSAGE")>>,
                    rule_matched |-> None,
                    rule_name    |-> None,
                    confidence   |-> "none" ]) ]

\* A slip: resolve stores the rendered text back into the cache.
ProcessRequest_RendersInPlace(handler, c) ==
    \E ds \in {ResolveAll(c)} :
    \E match \in {EvaluateRules(rules, c, ds, templates)} :
    \E resolved \in { IF match = None \/ match[1].message_ref = None
                      THEN [raised |-> FALSE, value |-> None]
                      ELSE Resolve(cache, match[1].message_ref[1], c, ds) } :
    \E r \in {Response(handler, match, resolved.value)} :
        /\ context' = c
        /\ dsr' = ds
        /\ result' = match
        /\ lastOp' = [ op |-> handler, raised |-> resolved.raised \/ r.raised, request |-> c,
                       response |-> IF resolved.raised THEN None ELSE r.response ]
        /\ cache' = IF resolved.value # None
                    THEN [cache EXCEPT ![match[1].message_ref[1]] = resolved.value[1].markdown]
                    ELSE cache
        /\ UNCHANGED <<bb, file, engineVars, msgdir, threadVars>>

\* One request to /api/chat (c is what the extractor made of the message) or
\* to /api/evaluate (c is request.context): resolve_all, evaluate, resolve (of
\* a match; a message_ref of None finds no template), and the response.
ProcessRequest(handler, c) ==
    \E ds \in {ResolveAll(c)} :
    \E match \in {EvaluateRules(rules, c, ds, templates)} :
    \E resolved \in { IF match = None \/ match[1].message_ref = None
                      THEN [raised |-> FALSE, value |-> None]
                      ELSE Resolve(cache, match[1].message_ref[1], c, ds) } :
    \E r \in {Response(handler, match, resolved.value)} :
        /\ context' = c
        /\ dsr' = ds
        /\ result' = match
        /\ lastOp' = [ op |-> handler, raised |-> resolved.raised \/ r.raised, request |-> c,
                       response |-> IF resolved.raised THEN None ELSE r.response ]
        /\ UNCHANGED <<bb, file, engineVars, resolverVars, threadVars>>

\* rule_engine.get_rule_by_id(rule_id)
GetRule(rule_id) ==
    /\ lastOp' = [ op |-> "get_rule_by_id", raised |-> FALSE, rule_id |-> rule_id,
                   out |-> GetRuleById(rules, rule_id) ]
    /\ NoCall
    /\ UNCHANGED <<bb, file, engineVars, resolverVars, threadVars>>

\* rule_engine.get_all_rules()
ListRules ==
    /\ lastOp' = [op |-> "get_all_rules", raised |-> FALSE, out |-> GetAllRules(rules)]
    /\ NoCall
    /\ UNCHANGED <<bb, file, engineVars, resolverVars, threadVars>>

\* _validate_rules_config: the errors found (admin.py 379-414).  config.rules
\* is a list whenever the key is there.
ValidateRulesConfig(cfg) ==
    IF ~IsObject(cfg) THEN {"Root must be a JSON object"}
    ELSE IF "rules" \notin DOMAIN cfg THEN {"'rules' must be an array"}
    ELSE LET rs == cfg.rules
             rid(i) == Get(rs[i], "id", "")
             Errors(i) ==
                IF ~IsObject(rs[i]) THEN {"is not an object"}
                ELSE (IF rid(i) = "" THEN {"missing 'id'"}
                      ELSE IF \E k \in 1..(i - 1) : IsObject(rs[k]) /\ rid(k) = rid(i)
                      THEN {"Duplicate rule id"}
                      ELSE {})
                     \cup (IF "conditions" \notin DOMAIN rs[i] THEN {"missing 'conditions'"} ELSE {})
                     \cup (IF "message_ref" \notin DOMAIN rs[i] THEN {"missing 'message_ref'"} ELSE {})
                     \cup (IF "priority" \notin DOMAIN rs[i] THEN {"missing 'priority'"} ELSE {}) IN
         UNION {Errors(i) : i \in 1..Len(rs)}

\* PUT /admin/api/rules/{rule_id} (admin.py 109-165).  get_file and commit_file
\* go to the repository when the client is configured and to the local rules
\* file otherwise; the commit to the repository succeeds or not (committed);
\* rule_engine.reload() reads the local rules file.  status is the HTTP status.
UpdateRule(rule_id, rule_json, committed) ==
    LET raw        == IF bb.configured THEN bb.remote ELSE file
        loads      == raw.kind = "json" /\ IsObject(raw.config)
        rules_list == Get(raw.config, "rules", <<>>)
        hits       == {i \in 1..Len(rules_list) : Get(rules_list[i], "id", "") = rule_id}
        first      == CHOOSE i \in hits : \A k \in hits : i <= k
        new_config == [raw.config EXCEPT !.rules = [rules_list EXCEPT ![first] = rule_json]]
        checked    == IF ~loads THEN 500
                      ELSE IF hits = {} THEN 404
                      ELSE IF ValidateRulesConfig(new_config) # {} THEN 400
                      ELSE IF ~committed THEN 500
                      ELSE 200
        new_file   == IF checked = 200 /\ ~bb.configured THEN JsonFile(new_config) ELSE file
        reloaded   == ReloadOutcome(new_file, Engine)
        status     == IF checked = 200 /\ reloaded.raised THEN 500 ELSE checked IN
    /\ committed \/ bb.configured
    /\ file' = new_file
    /\ bb' = IF checked = 200 /\ bb.configured
             THEN [bb EXCEPT !.remote = JsonFile(new_config)]
             ELSE bb
    /\ IF checked = 200 THEN SetEngine(reloaded.eng) ELSE UNCHANGED engineVars
    /\ lastOp' = [ op |-> "update_rule", raised |-> status # 200, status |-> status,
                   rule_id |-> rule_id, rule_json |-> rule_json ]
    /\ NoCall
    /\ UNCHANGED <<resolverVars, threadVars>>

\* The application as main.py starts it: the engine on the local rules file,
\* the resolver on the messages directory, the Bitbucket client configured or
\* not; a configured repository holds the local rules file or no rules file.
\* The rules files: rules with and without priority, a rule with sub-rules,
\* message_refs with and without a template, and rules over templates that
\* refer to themselves or to each other.
InitApi ==
    /\ \E f \in { JsonFile([rules |-> << RuleSub, RuleVA,
                                         [ id |-> "R_PLAIN", name |-> "Plain",
                                           conditions |-> [use_template |-> "is_broker"],
                                           message_ref |-> "MSG_VA" ] >>] @@ RegistryA),
                  JsonFile([ rules |-> << [ id |-> "R_LOOP", name |-> "Loop", priority |-> 1,
                                            conditions |->
                                              [all |-> <<IsMember, [use_template |-> "loop"]>>],
                                            message_ref |-> "MSG_VA" ],
                                          [ id |-> "R_PING", name |-> "Ping", priority |-> 2,
                                            conditions |-> [not |-> [use_template |-> "ping"]],
                                            message_ref |-> "MSG_VA" ],
                                          RuleVA, RuleMember >>,
                             condition_templates |->
                               [ loop  |-> [use_template |-> "loop"],
                                 ping  |-> [any |-> <<[use_template |-> "pong"]>>],
                                 pong  |-> [not |-> [use_template |-> "ping"]],
                                 is_va |-> StateIs(<<"V", "A">>) ] ]) } :
          /\ EngineBuilt(f)
          /\ bb \in { [configured |-> FALSE],
                      [configured |-> TRUE, remote |-> f],
                      [configured |-> TRUE, remote |-> MissingFile] }
    /\ ResolverBuilt(Dir([MSG_MEMBER |-> File(ContentMember), MSG_VA |-> File(ContentVA)]),
                     <<"MSG_MEMBER", "MSG_VA">>)
    /\ NothingCalled
    /\ NoThreads

NextApi ==
    \/ \E handler \in {"process_chat", "process_evaluate"},
          c \in Contexts \cup
                { PyDict(CtxMemberVA.d @@ (Name("has_fehbp_address") :> PyBool(TRUE))),
                  PyDict((Name("account_type") :> PyStr(<<"F", "E", "H", "B", "P">>))
                         @@ (Name("IsASO") :> PyBool(TRUE))) } :
          ProcessRequest(handler, c)
    \/ \E rule_id \in {"R_VA", "R_MEMBER", "R_GONE"} : GetRule(rule_id)
    \/ ListRules
    \/ \E rule_id \in {"R_VA", "R_MEMBER", "R_GONE"},
          rule_json \in { [ id |-> "R_VA", name |-> "Virginia", priority |-> 5,
                            conditions |-> IsMember, message_ref |-> "MSG_MEMBER" ],
                          [ id |-> "R_VA", name |-> "Virginia", priority |-> 10, active |-> FALSE,
                            conditions |-> [use_template |-> "is_va"], message_ref |-> "MSG_VA" ],
                          [ id |-> "R_MEMBER", name |-> "Member", priority |-> 1, active |-> TRUE,
                            conditions |-> [all |-> <<>>], message_ref |-> "MSG_VA" ],
                          [ id |-> "R_MEMBER", name |-> "Member",
                            conditions |-> IsMember, message_ref |-> "MSG_MEMBER" ] },
          committed \in BOOLEAN :
          UpdateRule(rule_id, rule_json, committed)

SpecApi == InitApi /\ [][NextApi]_vars

\* ------------------------------------------------------------------------
\* Properties of evaluate
\* ------------------------------------------------------------------------

CondOf(r) == Get(r, "conditions", EmptyBlock)

\* The conditions of rule (or sub-rule) r evaluate true on the last call's inputs.
Holds(r) == EvaluateBlock(CondOf(r), context, dsr, templates, 1) = "T"

Faults(r) == EvaluateBlock(CondOf(r), context, dsr, templates, 1) = "X"

SubsOf(r) == Get(r, "sub_rules", <<>>)

\* No rule and no sub-rule of rs raises on the last call's inputs.
NoFault(rs) ==
    \A i \in 1..Len(rs) :
        /\ ~Faults(rs[i])
        /\ \A j \in 1..Len(SubsOf(rs[i])) : ~Faults(SubsOf(rs[i])[j])

\* The rules array of the loaded configuration, in declaration order.
Declared == Get(config, "rules", <<>>)

\* The declared rules that are active and whose conditions hold.
Matching == {j \in 1..Len(Declared) : IsActive(Declared[j]) /\ Holds(Declared[j])}

\* Declared rule j is scanned before declared rule k.
ScannedBefore(j, k) ==
    \/ SortKey(Declared[j]) < SortKey(Declared[k])
    \/ SortKey(Declared[j]) = SortKey(Declared[k]) /\ j < k

\* The id of the top-level rule a match belongs to.
TopRuleId(m) == IF "parent_rule_id" \in DOMAIN m THEN m.parent_rule_id ELSE m.rule_id

Evaluated == lastOp.op = "evaluate"

\* C1: with no rule raising, evaluate returns the match of the active rule whose
\* conditions hold that comes first by ascending priority, ties in declaration
\* order; it returns None exactly when no active rule's conditions hold.
C1_FirstMatchByPriority ==
    (Evaluated /\ IsObject(config) /\ NoFault(Declared)) =>
        /\ (result = None) <=> (Matching = {})
        /\ result # None =>
            \E w \in Matching :
                /\ \A k \in Matching \ {w} : ScannedBefore(w, k)
                /\ TopRuleId(result[1]) = RuleId(Declared[w])

\* Two rules of equal priority hold, a third one of higher priority value holds
\* or not, and the earlier declared of the two is returned.
C1_Witness ==
    /\ Evaluated /\ IsObject(config) /\ NoFault(Declared)
    /\ result # None
    /\ \E j, k \in Matching :
        /\ j < k
        /\ SortKey(Declared[j]) = SortKey(Declared[k])
        /\ TopRuleId(result[1]) = RuleId(Declared[j])

\* The index in engine.rules of the first rule whose conditions hold.
Holding == {i \in 1..Len(rules) : Holds(rules[i])}

FirstHolding == CHOOSE i \in Holding : \A k \in Holding : i <= k

\* The sub-rules of rule p whose conditions hold.
SubsHolding(p) == {j \in 1..Len(SubsOf(p)) : Holds(SubsOf(p)[j])}

FirstSubHolding(p) == CHOOSE j \in SubsHolding(p) : \A k \in SubsHolding(p) : j <= k

\* C8: when the selected rule has sub-rules of which some hold, the first such
\* sub-rule in declaration order is returned (rule_id its id, parent_rule_id the
\* parent's id); no match ever names as parent a rule whose conditions do not hold.
C8_FirstSubRule ==
    Evaluated =>
        /\ (NoFault(rules) /\ Holding # {} /\ SubsHolding(rules[FirstHolding]) # {}) =>
            LET p == rules[FirstHolding]
                s == SubsOf(p)[FirstSubHolding(p)] IN
            /\ result # None
            /\ "parent_rule_id" \in DOMAIN result[1]
            /\ result[1].parent_rule_id = RuleId(p)
            /\ "id" \in DOMAIN s => result[1].rule_id = s.id
        /\ \A i \in 1..Len(rules) :
            ~Holds(rules[i]) =>
                ~(/\ result # None
                  /\ "parent_rule_id" \in DOMAIN result[1]
                  /\ result[1].parent_rule_id = RuleId(rules[i]))

\* The selected rule has a first sub-rule that does not hold and a later one that
\* does, and the later one is returned.
C8_Witness ==
    /\ Evaluated /\ NoFault(rules) /\ Holding # {}
    /\ SubsHolding(rules[FirstHolding]) # {}
    /\ FirstSubHolding(rules[FirstHolding]) > 1
    /\ result # None
    /\ "parent_rule_id" \in DOMAIN result[1]
    /\ "id" \in DOMAIN SubsOf(rules[FirstHolding])[FirstSubHolding(rules[FirstHolding])]
    /\ result[1].rule_id = SubsOf(rules[FirstHolding])[FirstSubHolding(rules[FirstHolding])].id

\* C9: when the selected rule has sub-rules and none of them holds, the rule
\* itself is returned, with no parent_rule_id, and the scan stops there.
C9_ParentFallback ==
    (/\ Evaluated /\ NoFault(rules) /\ Holding # {}
     /\ SubsOf(rules[FirstHolding]) # <<>>
     /\ SubsHolding(rules[FirstHolding]) = {}) =>
        LET p == rules[FirstHolding] IN
        /\ result # None
        /\ "parent_rule_id" \notin DOMAIN result[1]
        /\ result[1].rule_id = RuleId(p)
        /\ result[1].message_ref = Some(Get(p, "message_ref", ""))
        /\ result[1].placeholders = Get(p, "placeholders", <<>>)

\* The parent is returned although a rule scanned after it holds too.
C9_Witness ==
    /\ Evaluated /\ NoFault(rules) /\ Holding # {}
    /\ SubsOf(rules[FirstHolding]) # <<>>
    /\ SubsHolding(rules[FirstHolding]) = {}
    /\ \E k \in Holding : k > FirstHolding
    /\ result # None
    /\ result[1].rule_id = RuleId(rules[FirstHolding])

\* C10: a sub-rule match carries the sub-rule's message_ref and placeholders when
\* the sub-rule defines them, the parent's otherwise; name, priority and tags are
\* the parent's.
C10_SubRuleInheritance ==
    (/\ Evaluated /\ NoFault(rules) /\ Holding # {}
     /\ SubsHolding(rules[FirstHolding]) # {}) =>
        LET p == rules[FirstHolding]
            s == SubsOf(p)[FirstSubHolding(p)]
            m == result[1] IN
        /\ result # None
        /\ "message_ref" \in DOMAIN s => m.message_ref = Some(s.message_ref)
        /\ ("message_ref" \notin DOMAIN s /\ "message_ref" \in DOMAIN p) =>
                m.message_ref = Some(p.message_ref)
        /\ "placeholders" \in DOMAIN s => m.placeholders = s.placeholders
        /\ ("placeholders" \notin DOMAIN s /\ "placeholders" \in DOMAIN p) =>
                m.placeholders = p.placeholders
        /\ m.name = Get(p, "name", "")
        /\ m.priority = (IF "priority" \in DOMAIN p THEN Some(p.priority) ELSE None)
        /\ m.tags = Get(p, "tags", <<>>)

\* A sub-rule that defines message_ref and placeholders of its own, both different
\* from its parent's, is returned.
C10_Witness ==
    /\ Evaluated /\ NoFault(rules) /\ Holding # {}
    /\ SubsHolding(rules[FirstHolding]) # {}
    /\ LET p == rules[FirstHolding]
           s == SubsOf(p)[FirstSubHolding(p)] IN
       /\ "message_ref" \in DOMAIN s /\ "message_ref" \in DOMAIN p
       /\ s.message_ref # p.message_ref
       /\ "placeholders" \in DOMAIN s /\ "placeholders" \in DOMAIN p
       /\ s.placeholders # p.placeholders
       /\ result # None
       /\ result[1].message_ref = Some(s.message_ref)

\* ------------------------------------------------------------------------
\* Properties of loading and reloading
\* ------------------------------------------------------------------------

\* The positions of the declared rules that are active.
DeclaredActive == {j \in 1..Len(Declared) : IsActive(Declared[j])}

\* C7: engine.rules holds exactly the active rules of the loaded configuration,
\* by ascending priority (999 when missing), equal priorities in declaration
\* order; no inactive rule is returned by evaluate, get_all_rules, get_rule_by_id.
C7_ActiveSortedStable ==
    IsObject(config) =>
        /\ \E pos \in [1..Len(rules) -> DeclaredActive] :
            /\ \A j \in DeclaredActive : \E i \in 1..Len(rules) : pos[i] = j
            /\ \A i \in 1..Len(rules) : rules[i] = Declared[pos[i]]
            /\ \A i, k \in 1..Len(rules) : i < k => ScannedBefore(pos[i], pos[k])
        /\ \A j \in 1..Len(Declared) \ DeclaredActive :
            /\ GetRuleById(rules, RuleId(Declared[j])) = None
            /\ \A i \in 1..Len(rules) : GetAllRules(rules)[i].id # Some(RuleId(Declared[j]))
            /\ (Evaluated /\ result # None) => TopRuleId(result[1]) # RuleId(Declared[j])

\* After a reload that succeeded, the declared rules hold an inactive rule, two
\* active rules of equal priority, and a rule declared first that is scanned last.
C7_Witness ==
    /\ lastOp = Op("reload", FALSE)
    /\ IsObject(config)
    /\ DeclaredActive # 1..Len(Declared)
    /\ Len(rules) >= 3
    /\ rules[Len(rules)] = Declared[1]
    /\ \E i \in 1..Len(rules) - 1 : SortKey(rules[i]) = SortKey(rules[i + 1])

\* The result of evaluate on every modelled input, for an engine.
Behaviour(rs, ts) ==
    [c \in Contexts, d \in DataSourceResults |-> EvaluateRules(rs, c, d, ts)]

\* C3: a reload that cannot read or parse the file raises and leaves the rules
\* and the condition templates as they were, so evaluate behaves as before.
C3_FailedReloadKeepsSnapshot ==
    [][(lastOp'.op = "reload" /\ LoadRaises(file)) =>
            /\ lastOp'.raised
            /\ rules' = rules
            /\ templates' = templates
            /\ Behaviour(rules', templates') = Behaviour(rules, templates)]_vars

\* A reload has raised on an unreadable or unparsable file while rules are loaded.
C3_Witness ==
    /\ lastOp = Op("reload", TRUE)
    /\ LoadRaises(file)
    /\ rules # <<>>
    /\ DOMAIN templates # {}

\* C6: loading a configuration object that has no rules array raises.
C6_MalformedConfigIsLoadFailure ==
    (/\ lastOp.op \in {"init", "reload"}
     /\ file.kind = "json"
     /\ IsObject(file.config)
     /\ "rules" \notin DOMAIN file.config) => lastOp.raised

\* ------------------------------------------------------------------------
\* Properties of reload under concurrent calls, and of MessageResolver.reload
\* ------------------------------------------------------------------------

\* What evaluate returns on the last call's inputs for a [rules, templates] pair.
ResultOn(pair) == EvaluateRules(pair.rules, context, dsr, pair.templates)

\* The pair a completed reload of the rules file leaves in the engine.
AfterReload == [rules |-> RulesOf(file.config), templates |-> TemplatesOf(file.config)]

\* C2: an evaluate call that overlaps a reload returns what the rules and
\* templates from before the reload give, or what those from after it give.
C2_EvaluateSeesOldOrNew ==
    epc = "done" => result \in {ResultOn(before), ResultOn(AfterReload)}

\* C4: a message reload that cannot load the templates (the directory is
\* missing, or a file cannot be read) leaves the cache as it was before.
C4_FailedMessageReloadKeepsCache ==
    (lastOp.op = "msg_reload" /\ (~msgdir.exists \/ lastOp.raised)) => cache = cacheBefore

\* Every file of the messages directory can be read.
AllReadable == msgdir.exists /\ \A k \in DOMAIN msgdir.files : msgdir.files[k].readable

\* C5: while a message reload runs, resolve of a message_ref that is in the cache
\* before the reload and after it does not return None.
C5_ResolveDuringReloadFinds ==
    (/\ lastOp.op = "resolve"
     /\ mpc = "loading"
     /\ AllReadable
     /\ lastOp.ref \in DOMAIN cacheBefore
     /\ lastOp.ref \in DOMAIN msgdir.files) => result # None

\* ------------------------------------------------------------------------
\* Faults and configuration defects in evaluate
\* ------------------------------------------------------------------------

\* Evaluating rule r on the last call's inputs raises: its own conditions do,
\* or they hold and a sub-rule's conditions raise before any sub-rule holds.
Faulty(r) ==
    \/ Faults(r)
    \/ /\ Holds(r)
       /\ \E j \in 1..Len(SubsOf(r)) :
            /\ Faults(SubsOf(r)[j])
            /\ \A k \in 1..(j - 1) : ~Holds(SubsOf(r)[k])

\* Rule k is the first rule of the scan that holds without raising, and some
\* rule scanned before it raises.
FirstAfterFault(k) ==
    /\ Holds(rules[k]) /\ ~Faulty(rules[k])
    /\ \A i \in 1..(k - 1) : Faulty(rules[i]) \/ ~Holds(rules[i])
    /\ \E i \in 1..(k - 1) : Faulty(rules[i])

\* C11: evaluate does not raise when a rule's or a sub-rule's conditions raise;
\* the rule counts as not matching and the first later rule whose conditions
\* hold is returned.
C11_FaultSkipsRule ==
    Evaluated =>
        /\ ~lastOp.raised
        /\ \A k \in 1..Len(rules) :
            FirstAfterFault(k) =>
                /\ result # None
                /\ TopRuleId(result[1]) = RuleId(rules[k])

\* A rule with non-object conditions and a rule whose sub-rule raises are both
\* scanned before the rule that is returned.
C11_Witness ==
    /\ Evaluated
    /\ result # None
    /\ \E k \in 1..Len(rules) :
        /\ FirstAfterFault(k)
        /\ TopRuleId(result[1]) = RuleId(rules[k])
        /\ \E i \in 1..(k - 1) : Faults(rules[i])
        /\ \E i \in 1..(k - 1) : Holds(rules[i]) /\ Faulty(rules[i])

\* The rule has no conditions key, or its conditions are the empty object.
NoConditions(r) == CondOf(r) = EmptyBlock

\* C12: a rule with missing or empty conditions is never returned by evaluate.
C12_MalformedConditionsNeverMatch ==
    Evaluated =>
        \A i \in 1..Len(rules) :
            NoConditions(rules[i]) => (result = None \/ TopRuleId(result[1]) # RuleId(rules[i]))

\* ------------------------------------------------------------------------
\* Properties of the leaf evaluator
\* ------------------------------------------------------------------------

KnownOps ==
    { "eq", "equals", "neq", "not_equals", "in", "not_in", "is_empty", "is_not_empty",
      "exists_with_value", "is_empty_or_false" }

\* _evaluate_condition has returned (or raised) on the leaf lastOp.args[1].
LeafEvaluated == lastOp.op = "evaluate_condition"

Leaf == lastOp.args[1]

SourceOnly(l) == "source" \in DOMAIN l /\ "field" \notin DOMAIN l

SourceField(l) == "source" \in DOMAIN l /\ "field" \in DOMAIN l

\* Every data-source result of the last call is a mapping.
ResultsAreMappings == \A k \in DOMAIN dsr.d : dsr.d[k].t = "dict"

UnknownOp(l) == "op" \in DOMAIN l /\ l.op \notin KnownOps

\* The result mapping of the leaf's source holds at least one key.
SourceNonEmpty(l) == l.source \in DOMAIN dsr.d /\ DOMAIN dsr.d[l.source].d # {}

\* C13 as stated: a leaf whose op is not a known operator evaluates to false and
\* does not raise, in all three lookup modes (data-source results being mappings).
C13_UnknownOpIsFalse ==
    (LeafEvaluated /\ ResultsAreMappings /\ UnknownOp(Leaf)) =>
        (~lastOp.raised /\ lastOp.out = "F")

\* C13 amended: a leaf whose op is not a known operator does not raise; on a
\* context-field or source-plus-field leaf it evaluates to false, on a
\* source-only leaf it evaluates to whether the source's mapping is non-empty.
C13_UnknownOpByMode ==
    (LeafEvaluated /\ ResultsAreMappings /\ UnknownOp(Leaf)) =>
        /\ ~lastOp.raised
        /\ lastOp.out = IF SourceOnly(Leaf) THEN B(SourceNonEmpty(Leaf)) ELSE "F"

\* An unknown operator on a source-only leaf over a non-empty mapping: true.
C13_Witness ==
    /\ LeafEvaluated /\ ResultsAreMappings /\ UnknownOp(Leaf)
    /\ SourceOnly(Leaf) /\ SourceNonEmpty(Leaf)
    /\ lastOp.out = "T"

\* ------------------------------------------------------------------------
\* Properties of the block evaluator
\* ------------------------------------------------------------------------

\* The boolean a condition tree denotes on the last call's context and
\* data-source results, with the engine's registry: All is a conjunction, Any
\* a disjunction, Not a negation, a TemplateRef is the registered tree or
\* false when none is registered.
RECURSIVE Denotes(_)
Denotes(b) ==
    IF "use_template" \in DOMAIN b THEN
        /\ b.use_template \in DOMAIN templates
        /\ templates[b.use_template] # PyNone
        /\ Denotes(templates[b.use_template])
    ELSE IF "all" \in DOMAIN b THEN \A i \in 1..Len(b.all) : Denotes(b.all[i])
    ELSE IF "any" \in DOMAIN b THEN \E i \in 1..Len(b.any) : Denotes(b.any[i])
    ELSE IF "not" \in DOMAIN b THEN ~Denotes(b["not"])
    ELSE EvaluateCondition(b, context, dsr) = "T"

\* C14: _evaluate_block returns, without raising, the boolean the tree denotes.
C14_BlockMatchesReference ==
    lastOp.op = "evaluate_block" =>
        (~lastOp.raised /\ lastOp.out = B(Denotes(lastOp.args[1])))

\* An All over a leaf that holds and an Any whose first child is a template
\* that refers to another template and negates an unregistered one.
C14_Witness ==
    /\ lastOp.op = "evaluate_block"
    /\ lastOp.args[1] = [all |-> << StateIs(<<"V", "A">>),
                                     [any |-> << [use_template |-> "nested"],
                                                 [use_template |-> "missing"] >>] >>]
    /\ lastOp.out = "T"

\* ------------------------------------------------------------------------
\* Properties of _normalize and _compare
\* ------------------------------------------------------------------------

\* C15: normalising a normalised value changes nothing.
C15_NormalizeIdempotent ==
    lastOp.op = "normalize" => Normalize(lastOp.out) = lastOp.out

\* A padded upper-case "FALSE" is normalised to the boolean False.
C15_Witness ==
    /\ lastOp.op = "normalize"
    /\ lastOp.args[1] = PyStr(<<" ", "F", "A", "L", "S", "E", " ">>)
    /\ lastOp.out = PyBool(FALSE)

Compared == lastOp.op = "compare"

Actual == lastOp.args[1]

Expected == lastOp.args[2]

\* The raw value is None, "" or an empty sequence.
IsAbsent(v) == v \in {PyNone, PyStr(<<>>), PyList(<<>>)}

\* The raw value is False or 0.
IsFalseOrZero(v) == v \in {PyBool(FALSE), PyInt(0)}

\* C16: is_empty is true exactly on None, "", the empty sequence, False and 0;
\* exists_with_value is false exactly on None, "" and the empty sequence, so
\* both are true on False and 0 and they differ on every other value.
C16_EmptyVersusExists ==
    /\ (Compared /\ lastOp.args[3] = "is_empty") =>
            (lastOp.out <=> (IsAbsent(Actual) \/ IsFalseOrZero(Actual)))
    /\ (Compared /\ lastOp.args[3] = "exists_with_value") =>
            (lastOp.out <=> ~IsAbsent(Actual))

\* exists_with_value holds of 0, of which is_empty holds too.
C16_Witness ==
    /\ Compared
    /\ lastOp.args[3] = "exists_with_value"
    /\ Actual = PyInt(0)
    /\ lastOp.out
    /\ Compare(Actual, Expected, "is_empty")

\* The positive operator a negative operator negates.
Positive(op) ==
    CASE op = "neq" -> "eq"
      [] op = "not_equals" -> "equals"
      [] op = "not_in" -> "in"
      [] op = "is_not_empty" -> "is_empty"

\* C17: neq / not_equals, not_in and is_not_empty return the negation of what
\* eq / equals, in and is_empty return on the same actual value and val; with a
\* scalar val, in returns what eq returns and not_in what neq returns.
C17_NegativeOperators ==
    Compared =>
        /\ lastOp.args[3] \in {"neq", "not_equals", "not_in", "is_not_empty"} =>
                (lastOp.out <=> ~Compare(Actual, Expected, Positive(lastOp.args[3])))
        /\ (lastOp.args[3] = "in" /\ Expected.t # "list") =>
                (lastOp.out <=> Compare(Actual, Expected, "eq"))
        /\ (lastOp.args[3] = "not_in" /\ Expected.t # "list") =>
                (lastOp.out <=> Compare(Actual, Expected, "neq"))

\* not_in with the scalar val "VA" is false of the padded " va".
C17_Witness ==
    /\ Compared
    /\ lastOp.args[3] = "not_in"
    /\ Expected = PyStr(<<"V", "A">>)
    /\ Actual = PyStr(<<" ", "v", "a", "\t">>)
    /\ ~lastOp.out

\* ------------------------------------------------------------------------
\* Properties of the lookups: source-only, source plus field, context field
\* ------------------------------------------------------------------------

\* The result mapping of the leaf's source holds a value other than None, ""
\* and the empty sequence.
SourceHasValue(l) ==
    /\ SourceNonEmpty(l)
    /\ \E k \in DOMAIN dsr.d[l.source].d : ~IsAbsent(dsr.d[l.source].d[k])

\* C18: on a source-only leaf is_not_empty is true iff the source's mapping
\* holds a value that is not empty, is_empty is its negation, and any other
\* operator is true iff the mapping holds a key.
C18_SourceOnlyLeaf ==
    (LeafEvaluated /\ SourceOnly(Leaf) /\ ResultsAreMappings) =>
        /\ ~lastOp.raised
        /\ lastOp.out = B(CASE Get(Leaf, "op", "eq") = "is_not_empty" -> SourceHasValue(Leaf)
                             [] Get(Leaf, "op", "eq") = "is_empty" -> ~SourceHasValue(Leaf)
                             [] OTHER -> SourceNonEmpty(Leaf))

\* is_empty is true of a mapping that holds keys, all with empty values.
C18_Witness ==
    /\ LeafEvaluated /\ SourceOnly(Leaf) /\ ResultsAreMappings
    /\ Get(Leaf, "op", "eq") = "is_empty"
    /\ SourceNonEmpty(Leaf) /\ ~SourceHasValue(Leaf)
    /\ lastOp.out = "T"

\* The value reached from cur along the nested keys parts, if every step exists.
RECURSIVE PathValue(_, _)
PathValue(cur, parts) ==
    IF parts = <<>> THEN Some(cur)
    ELSE IF cur.t = "dict" /\ <<Head(parts)>> \in DOMAIN cur.d
    THEN PathValue(cur.d[<<Head(parts)>>], Tail(parts))
    ELSE None

ShortName(field) == <<field[Len(field)]>>

\* C19: _get_field returns the value under the flat key; else the value at the
\* nested path; else the value under the last segment; else None.
C19_FieldResolverOrder ==
    lastOp.op = "get_field" =>
        LET field == lastOp.args[1] IN
        lastOp.out =
            IF field \in DOMAIN context.d THEN context.d[field]
            ELSE IF PathValue(context, field) # None THEN PathValue(context, field)[1]
            ELSE IF ShortName(field) \in DOMAIN context.d THEN context.d[ShortName(field)]
            ELSE PyNone

\* No flat key, a nested path and a short name: the nested value is returned.
C19_Witness ==
    /\ lastOp.op = "get_field"
    /\ lastOp.args[1] = <<"Policy", "PolicyState">>
    /\ lastOp.args[1] \notin DOMAIN context.d
    /\ PathValue(context, lastOp.args[1]) = Some(PyStr(<<"M", "D">>))
    /\ ShortName(lastOp.args[1]) \in DOMAIN context.d
    /\ lastOp.out = PyStr(<<"M", "D">>)

\* The value a source-plus-field leaf reads: the one under the field, as a flat
\* key, in the source's mapping, or None.
SourceValue(l) ==
    IF l.source \in DOMAIN dsr.d /\ l.field \in DOMAIN dsr.d[l.source].d
    THEN dsr.d[l.source].d[l.field]
    ELSE PyNone

\* C20: a leaf with source and field compares the value found in the source's
\* mapping, None when the source or the field is missing there, whatever the
\* context holds.
C20_SourceFieldLeaf ==
    (LeafEvaluated /\ SourceField(Leaf) /\ ResultsAreMappings) =>
        /\ ~lastOp.raised
        /\ lastOp.out = B(Compare(SourceValue(Leaf), Get(Leaf, "val", PyNone),
                                  Get(Leaf, "op", "eq")))

\* The context holds the field flat, nested and under its short name, the
\* source's mapping lacks it, and exists_with_value is false.
C20_Witness ==
    /\ LeafEvaluated /\ SourceField(Leaf) /\ ResultsAreMappings
    /\ Leaf.field = <<"Policy", "PolicyState">>
    /\ Leaf.field \in DOMAIN context.d
    /\ Leaf.source \in DOMAIN dsr.d
    /\ Leaf.field \notin DOMAIN dsr.d[Leaf.source].d
    /\ Get(Leaf, "op", "eq") = "exists_with_value"
    /\ lastOp.out = "F"

\* ------------------------------------------------------------------------
\* Properties of replace_placeholder
\* ------------------------------------------------------------------------

\* replace_placeholder has returned or raised.
Replaced == lastOp.op = "replace_placeholder"

\* The placeholder of the call, as its dot-separated segments.
Placeholder == lastOp.args[1]

Dotted == Len(Placeholder) > 1

\* The placeholder reads 'source.rest' and source is a key of the data-source
\* results, whose result is a mapping.
NamesSource ==
    /\ Dotted
    /\ <<Head(Placeholder)>> \in DOMAIN dsr.d
    /\ dsr.d[<<Head(Placeholder)>>].t = "dict"

\* What the data source holds for rest: PyNone when it holds nothing.
FromSource == DictGet(dsr.d[<<Head(Placeholder)>>], Tail(Placeholder), PyNone)

\* What the context holds under the full dotted token.
UnderFullToken == DictGet(context, Placeholder, PyNone)

\* C21: for a placeholder 'source.rest' whose source is a key of the
\* data-source results, the data source's value for rest is substituted
\* whenever it is non-empty (a value Python holds true: not None, '', [], {},
\* False or 0), whatever the context holds for the token; when that value is
\* missing or empty and the context holds the full dotted token as a flat key,
\* the context's value is substituted.
C21_SourceBeforeContext ==
    (Replaced /\ NamesSource) =>
        /\ ~lastOp.raised
        /\ Truthy(FromSource) => lastOp.out = Substituted(FromSource)
        /\ (~Truthy(FromSource) /\ UnderFullToken.t # "none")
              => lastOp.out = Substituted(UnderFullToken)

\* The data source holds a value and the context holds another one under the
\* full dotted token; the data source's value was substituted.
C21_Witness ==
    /\ Replaced /\ NamesSource
    /\ Truthy(FromSource)
    /\ UnderFullToken.t # "none"
    /\ UnderFullToken # FromSource
    /\ lastOp.out = Substituted(FromSource)

\* No data source resolves the placeholder: its first segment names no data
\* source, or the source's result mapping holds nothing true for the rest.
NotFromSource ==
    /\ <<Head(Placeholder)>> \in DOMAIN dsr.d => dsr.d[<<Head(Placeholder)>>].t = "dict"
    /\ ~(NamesSource /\ Truthy(FromSource))

\* What the context holds under the token's last dot-separated segment.
UnderLastSegment == DictGet(context, <<Placeholder[Len(Placeholder)]>>, PyNone)

\* C22: a dotted placeholder that neither a data source nor the full dotted
\* token as a context key resolves is replaced by the context's value under
\* its last dot-separated segment, for tokens of any number of segments.
C22_LastSegmentFallback ==
    (Replaced /\ Dotted /\ NotFromSource
        /\ UnderFullToken.t = "none" /\ UnderLastSegment.t # "none")
    => lastOp.out = Substituted(UnderLastSegment)

\* ------------------------------------------------------------------------
\* Properties of resolve
\* ------------------------------------------------------------------------

\* resolve has returned a rendering, and no reload is under way since.
Resolved == lastOp.op = "resolve" /\ ~lastOp.raised /\ result # None /\ mpc = "idle"

Markdown == result[1].markdown

\* The body that was rendered.
TemplateBody == cache[lastOp.ref]

\* body[i..j] is a token with braces of its own: '{{', a group of at least
\* one lexeme that is no brace and no line break, '}}'.
RawTokenAt(body, i, j) ==
    /\ body[i] = Lit("{{")
    /\ body[j] = Lit("}}")
    /\ j > i + 1
    /\ \A k \in (i + 1)..(j - 1) : body[k] \notin {Lit("{{"), Lit("}}"), Lit("\n")}

\* The placeholder of such a token: its group without the blanks around it.
RawName(body, i, j) ==
    LET group == StripTokens(SubSeq(body, i + 1, j - 1)) IN
    IF group = <<>> THEN <<"">> ELSE [k \in 1..Len(group) |-> group[k].lit]

\* The placeholders of the one-line, non-empty tokens of a body.
TokenNames(body) ==
    { body[i].ph : i \in {k \in 1..Len(body) : "ph" \in DOMAIN body[k]} }
    \cup { RawName(body, i, j) : <<i, j>> \in
             {p \in (1..Len(body)) \X (1..Len(body)) : RawTokenAt(body, p[1], p[2])} }

\* Something in the data sources or the context resolves the placeholder.
Resolvable(name) ==
    \/ /\ Len(name) > 1
       /\ <<Head(name)>> \in DOMAIN dsr.d
       /\ Truthy(DictGet(dsr.d[<<Head(name)>>], Tail(name), PyNone))
    \/ DictGet(context, name, PyNone).t # "none"
    \/ DictGet(context, <<name[Len(name)]>>, PyNone).t # "none"

\* Each token is replaced: by a value when something resolves it, by the
\* bracketed token when nothing does.
TokensReplaced ==
    \A name \in TokenNames(TemplateBody) :
        IF Resolvable(name)
        THEN /\ \E k \in 1..Len(Markdown) : "text" \in DOMAIN Markdown[k]
             /\ \A k \in 1..Len(Markdown) : Markdown[k] # Unresolved(name)
        ELSE \E k \in 1..Len(Markdown) : Markdown[k] = Unresolved(name)

\* C23 as claimed: resolve of a known message_ref (data-source results being
\* mappings) never raises, replaces every {{token}} by its value or by the
\* bracketed token, and returns a markdown with no '{{' in it.
C23_NoBracesLeft ==
    /\ (lastOp.op = "resolve" /\ ResultsAreMappings) => ~lastOp.raised
    /\ (Resolved /\ ResultsAreMappings) =>
          /\ TokensReplaced
          /\ \A k \in 1..Len(Markdown) :
                "ph" \notin DOMAIN Markdown[k] /\ Markdown[k] # Lit("{{")

\* C23 (amended): resolve of a known message_ref (data-source results being
\* mappings) never raises and replaces every {{token}} whose token is not
\* empty and holds no line break, by its value or by the bracketed token; the
\* markdown returned holds no such token: a '{{' left in it is followed by
\* '}}' at once, after a line break, or not at all.
C23_OneLineTokensReplaced ==
    /\ (lastOp.op = "resolve" /\ ResultsAreMappings) => ~lastOp.raised
    /\ (Resolved /\ ResultsAreMappings) =>
          /\ TokensReplaced
          /\ \A k \in 1..Len(Markdown) : "ph" \notin DOMAIN Markdown[k]
          /\ \A i \in 1..Len(Markdown), j \in 1..Len(Markdown) :
                ~RawTokenAt(Markdown, i, j)

\* A template with a token in braces of its own, a token broken over two
\* lines and an empty token was rendered: one token was replaced by a value,
\* one by the bracketed token, and the braces of the broken and the empty
\* token are still there.
C23_Witness ==
    /\ Resolved /\ ResultsAreMappings
    /\ \E i \in 1..Len(TemplateBody), j \in 1..Len(TemplateBody) :
          RawTokenAt(TemplateBody, i, j)
    /\ \E k \in 1..Len(Markdown) : Markdown[k] = Lit("{{")
    /\ \E k \in 1..Len(Markdown) : "text" \in DOMAIN Markdown[k]
    /\ \E k \in 1..Len(Markdown) : "unresolved" \in DOMAIN Markdown[k]

\* ------------------------------------------------------------------------
\* Properties of _load_all
\* ------------------------------------------------------------------------

\* The cache was loaded from the messages directory as it stands.
Loaded ==
    /\ mpc = "idle"
    /\ lastOp.op \in {"init", "msg_reload"}
    /\ ~lastOp.raised
    /\ msgdir.exists

\* The file begins with a '---' line and holds a second one: nothing stands
\* before the first '---'.
BeginsWithFrontmatter(content) == Len(content) >= 3 /\ content[1] = <<>>

\* C24: a loaded template is stored without its leading frontmatter block
\* when the file begins with one, and with its whole text (trimmed)
\* otherwise, '---' sequences further down included.
C24_OnlyLeadingFrontmatterRemoved ==
    Loaded =>
        \A stem \in DOMAIN cache :
            cache[stem] =
                IF BeginsWithFrontmatter(msgdir.files[stem].content)
                THEN StripTokens(JoinParts(SubSeq(msgdir.files[stem].content, 3,
                                                  Len(msgdir.files[stem].content))))
                ELSE StripTokens(JoinParts(msgdir.files[stem].content))

\* ------------------------------------------------------------------------
\* Properties of reload and the configuration
\* ------------------------------------------------------------------------

\* C30: after a reload that did not raise, config is the configuration object
\* just loaded from the rules file, and rules, templates and data_sources are
\* all derived from it.
C30_ReloadRederivesAll ==
    (lastOp.op = "reload" /\ ~lastOp.raised) =>
        /\ config = file.config
        /\ rules = RulesOf(config)
        /\ templates = TemplatesOf(config)
        /\ data_sources = DataSourcesOf(config)

\* ------------------------------------------------------------------------
\* Properties of the request handlers
\* ------------------------------------------------------------------------

\* The last step was a request to /api/chat or /api/evaluate.
Handled == lastOp.op \in {"process_chat", "process_evaluate"}

\* C25: a request, which calls evaluate and then resolve, leaves the engine's
\* rules and condition templates and the resolver's cache as they were, and
\* the context and the data-source results as they were passed in, also when
\* a rule faults.
C25_EvaluateAndResolveReadOnly ==
    [][ lastOp'.op \in {"process_chat", "process_evaluate"} =>
            /\ rules' = rules
            /\ templates' = templates
            /\ cache' = cache
            /\ context' = lastOp'.request
            /\ dsr' = ResolveAll(lastOp'.request) ]_vars

\* A request on which a rule faulted, a later rule matched and its template
\* was resolved.
C25_Witness ==
    /\ Handled /\ ~lastOp.raised
    /\ \E i \in 1..Len(rules) : Faults(rules[i])
    /\ result # None
    /\ lastOp.response[1].rule_matched # None

\* The loaded rules whose id is rule_id.
LoadedWithId(rule_id) ==
    {i \in 1..Len(rules) : "id" \in DOMAIN rules[i] /\ rules[i].id = rule_id}

\* C26: get_rule_by_id returns, without raising, a loaded rule that has the
\* id asked for, and None when no loaded rule has it; get_all_rules returns
\* one summary per loaded rule, with the rule's id, in the order of the scan
\* of evaluate, which is by ascending priority.
C26_LookupAndListing ==
    /\ lastOp.op = "get_rule_by_id" =>
        /\ ~lastOp.raised
        /\ IF LoadedWithId(lastOp.rule_id) = {} THEN lastOp.out = None
           ELSE /\ lastOp.out # None
                /\ \E i \in LoadedWithId(lastOp.rule_id) : lastOp.out[1] = rules[i]
    /\ lastOp.op = "get_all_rules" =>
        /\ ~lastOp.raised
        /\ Len(lastOp.out) = Len(rules)
        /\ \A i \in 1..Len(rules) :
            lastOp.out[i].id = IF "id" \in DOMAIN rules[i] THEN Some(rules[i].id) ELSE None
        /\ \A i, j \in 1..Len(rules) : i < j => SortKey(rules[i]) <= SortKey(rules[j])

\* A rule other than the first of the scan was asked for and returned.
C26_Witness ==
    /\ lastOp.op = "get_rule_by_id"
    /\ lastOp.out # None
    /\ lastOp.out[1] # rules[1]

\* The last request's match has no loaded template: there is no match, or
\* its message_ref is not a key of the cache.
NoTemplate ==
    \/ result = None
    \/ result[1].message_ref = None
    \/ result[1].message_ref[1] \notin DOMAIN cache

\* C27: process_evaluate and process_chat return the fallback (NO_MATCH_MESSAGE,
\* rule_matched None, confidence 'none') exactly when evaluate returned no
\* match or the match's message_ref has no loaded template; otherwise they
\* return the match's rule_id and the markdown resolved for its message_ref.
C27_FallbackExactlyWithoutTemplate ==
    Handled =>
        /\ ~lastOp.raised
        /\ IF NoTemplate
           THEN /\ lastOp.response[1].message = <<Lit("NO_MATCH_MESSAGE")>>
                /\ lastOp.response[1].rule_matched = None
                /\ lastOp.response[1].confidence = "none"
           ELSE /\ lastOp.response[1].rule_matched = Some(result[1].rule_id)
                /\ lastOp.response[1].message =
                       Resolve(cache, result[1].message_ref[1], context, dsr).value[1].markdown

\* update_rule has returned success for a submitted rule that is active and
\* has the id of the rule it replaces.
Updated ==
    /\ lastOp.op = "update_rule"
    /\ lastOp.status = 200
    /\ IsActive(lastOp.rule_json)
    /\ Get(lastOp.rule_json, "id", "") = lastOp.rule_id

\* C28: after update_rule has returned success for rule R, with the
\* Bitbucket client configured or not, the engine serves the submitted rule:
\* it is the loaded rule with id R, the one get_rule_by_id returns and
\* evaluate scans.
C28_UpdateIsServed ==
    Updated => GetRuleById(rules, lastOp.rule_id) = Some(lastOp.rule_json)

\* ------------------------------------------------------------------------
\* Properties of evaluate on templates that refer to themselves
\* ------------------------------------------------------------------------

\* The evaluation of block on the last call's inputs, begun inside the
\* templates of `entered`, comes to enter one of them again: a use_template
\* whose template is entered already, or one that is reached through a
\* template, through a not, or through the child of an all (any) that is
\* evaluated because the children before it are true (false).
RECURSIVE Reenters(_, _)
Reenters(block, entered) ==
    IF ~IsObject(block) THEN FALSE
    ELSE IF "use_template" \in DOMAIN block THEN
        /\ block.use_template \in DOMAIN templates
        /\ templates[block.use_template] # PyNone
        /\ \/ block.use_template \in entered
           \/ Reenters(templates[block.use_template], entered \cup {block.use_template})
    ELSE IF "all" \in DOMAIN block THEN
        \E i \in 1..Len(block.all) :
            /\ \A k \in 1..(i - 1) : EvaluateBlock(block.all[k], context, dsr, templates, 1) = "T"
            /\ Reenters(block.all[i], entered)
    ELSE IF "any" \in DOMAIN block THEN
        \E i \in 1..Len(block.any) :
            /\ \A k \in 1..(i - 1) : EvaluateBlock(block.any[k], context, dsr, templates, 1) = "F"
            /\ Reenters(block.any[i], entered)
    ELSE IF "not" \in DOMAIN block THEN Reenters(block["not"], entered)
    ELSE FALSE

\* The conditions of rule r reach a template that refers to itself.
Spins(r) == Reenters(CondOf(r), {})

Terminates(r) == ~Spins(r)

\* C29: a rule whose conditions reach a template that refers to itself,
\* directly or through other templates, is not the rule returned, and the
\* request's evaluate returns what the scan of the other rules gives.
C29_SelfReferenceSkipsRule ==
    Handled =>
        /\ \A i \in 1..Len(rules) :
            Spins(rules[i]) => (result = None \/ TopRuleId(result[1]) # RuleId(rules[i]))
        /\ result = EvaluateRules(SelectSeq(rules, Terminates), context, dsr, templates)

\* Two rules spin, one on a template that uses itself and one on two
\* templates that use each other, and a rule after them is returned.
C29_Witness ==
    /\ Handled
    /\ \E i, j \in 1..Len(rules) :
        /\ i # j
        /\ Spins(rules[i]) /\ Spins(rules[j])
        /\ CondOf(rules[i]) # CondOf(rules[j])
    /\ result # None
    /\ \E k \in 1..Len(rules) : ~Spins(rules[k]) /\ result[1].rule_id = RuleId(rules[k])

====
